---- MODULE Spec2Model ----
(***************************************************************************)
(* Model of the session-token endpoints of the user-management service     *)
(* (ValidateJWT, RenewJWT, RevokeAllRefreshTokens) over the user store.     *)
(* One stored user document is shared by concurrent request handlers; every *)
(* database call is one atomic step, the code between two database calls    *)
(* runs on the handler's private copy of the user.  Of the user document    *)
(* the model keeps the fields these endpoints read; the timestamps only     *)
(* written here (updatedAt, lastLogin, lastTokenRefresh) are left out.      *)
(***************************************************************************)
EXTENDS Integers, Sequences, FiniteSets, TLC

VARIABLES
    db,          \* the stored user document, or NoUser once deleted
    now,         \* time.Now().Unix()
    nextRT,      \* next string of tokens.GenerateUniqueTokenString
    pc,          \* position of each request handler
    call,        \* the request each handler serves, with what was true of it
    local,       \* each handler's private copy of the user
    out,         \* the request that returned in the last step, with its response
    exchanged,   \* refresh tokens exchanged successfully so far
    revoked,     \* refresh tokens handed out before a successful revoke wrote
    users,       \* the users collection of the instance: user id -> document
    tempTokens,  \* the temp-tokens collection of the global database
    reminders,   \* user id -> reminders to confirm the account sent so far
    lastTempTokenDeleteTime,  \* when a clean-up of temp-tokens was last started
    cleanups     \* the start times of the CleanExpiredTemptokens tasks, in order

vars == <<db, now, nextRT, pc, call, local, out, exchanged, revoked, users, tempTokens,
          reminders, lastTempTokenDeleteTime, cleanups>>

----------------------------------------------------------------------------
(* Bounds *)

MaxTime == 2
MaxIssue == 3
TokenExpiryInterval == 1

(* Program constants *)

MaxRefreshTokens == 10

Handlers == {"h1", "h2"}

NoUser == [id |-> "none"]
NoClaims == [id |-> ""]
EmptyRT == -1
BogusRT == 0

Range(s) == {s[i] : i \in 1..Len(s)}

----------------------------------------------------------------------------
(* pkg/models: the user aggregate's refresh-token slots *)

\* a variant that appends without trimming
AddRefreshTokenNoTrim(user, token) ==
    [user EXCEPT !.refreshTokens = Append(@, token)]

AddRefreshToken(user, token) ==
    LET appended == Append(user.refreshTokens, token)
    IN  [user EXCEPT !.refreshTokens =
            IF Len(appended) > MaxRefreshTokens
            THEN SubSeq(appended, Len(appended) - MaxRefreshTokens + 1, Len(appended))
            ELSE appended]

HasRefreshToken(user, token) ==
    \E i \in 1..Len(user.refreshTokens) : user.refreshTokens[i] = token

FirstIndex(s, x) == CHOOSE i \in 1..Len(s) : s[i] = x /\ \A j \in 1..(i-1) : s[j] # x

RemoveRefreshToken(user, token) ==
    IF HasRefreshToken(user, token)
    THEN LET i == FirstIndex(user.refreshTokens, token)
         IN  [err |-> FALSE,
              user |-> [user EXCEPT !.refreshTokens =
                           SubSeq(@, 1, i-1) \o SubSeq(@, i+1, Len(@))]]
    ELSE [err |-> TRUE, user |-> user]

(* pkg/utils *)

GetMainAndOtherProfiles(user) ==
    LET mains  == SelectSeq(user.profiles, LAMBDA pr : pr.mainProfile)
        others == SelectSeq(user.profiles, LAMBDA pr : ~pr.mainProfile)
    IN  [main |-> IF Len(mains) > 0 THEN mains[Len(mains)].id ELSE "",
         others |-> [i \in 1..Len(others) |-> others[i].id]]

(* pkg/tokens: the claims codec *)

GenerateNewToken(userID, accountConfirmed, profileID, roles, instanceID, username, otherProfileIDs, t) ==
    [id |-> userID, instanceId |-> instanceID, profileId |-> profileID,
     otherProfileIds |-> otherProfileIDs, accountConfirmed |-> accountConfirmed,
     payload |-> [roles |-> roles, username |-> username],
     issuedAt |-> t, expiresAt |-> t + TokenExpiryInterval]

GetRolesFromPayload(payload) == payload.roles
GetUsernameFromPayload(payload) == payload.username

\* err: "" (none), "expired" ("token is expired by ..."), "invalid" (anything else)
ValidateToken(claims, tampered, t) ==
    IF tampered
    THEN [claims |-> claims, ok |-> FALSE, err |-> "invalid"]
    ELSE IF t > claims.expiresAt
         THEN [claims |-> claims, ok |-> FALSE, err |-> "expired"]
         ELSE [claims |-> claims, ok |-> TRUE, err |-> ""]

----------------------------------------------------------------------------
(* pkg/dbs/userdb *)

GetUserByID(id) ==
    IF db # NoUser /\ db.id = id
    THEN [err |-> FALSE, user |-> db]
    ELSE [err |-> TRUE, user |-> NoUser]

\* the document FindOneAndReplace stores and returns; err when no document matches
UpdateUser(updatedUser, t) ==
    IF db # NoUser /\ db.id = updatedUser.id
    THEN [err |-> FALSE, user |-> updatedUser]
    ELSE [err |-> TRUE, user |-> NoUser]

----------------------------------------------------------------------------
(* Requests and responses *)

NoResp == [kind |-> "none"]
ErrorResp(code, msg) == [kind |-> "error", code |-> code, msg |-> msg]

\* the access token the client holds: signed for profile p2, valid until time 1
Tok == GenerateNewToken("u1", TRUE, "p2", <<"PARTICIPANT", "ADMIN">>, "inst1", "alice", <<"p1">>,
                        1 - TokenExpiryInterval)

\* the access tokens clients present; "" is NoClaims
AccessTokens == {Tok}

Call(op, claims, tampered, rt) ==
    [op |-> op, at |-> claims, tampered |-> tampered, rt |-> rt,
     expired |-> (claims # NoClaims /\ now > claims.expiresAt),
     replay |-> rt \in exchanged,
     loaded |-> FALSE, found |-> FALSE, held |-> FALSE, marked |-> FALSE,
     wrote |-> FALSE, before |-> <<>>,
     newToken |-> NoClaims, newRefreshToken |-> EmptyRT,
     double |-> FALSE, log |-> "", resp |-> NoResp]

NoCall ==
    [op |-> "none", at |-> NoClaims, tampered |-> FALSE, rt |-> EmptyRT,
     expired |-> FALSE, replay |-> FALSE,
     loaded |-> FALSE, found |-> FALSE, held |-> FALSE, marked |-> FALSE,
     wrote |-> FALSE, before |-> <<>>,
     newToken |-> NoClaims, newRefreshToken |-> EmptyRT,
     double |-> FALSE, log |-> "", resp |-> NoResp]

Return(c, r) == [c EXCEPT !.resp = r]
ReturnLogged(c, r, event) == [c EXCEPT !.resp = r, !.log = event]

InitUser(n, confirmedAt, marked) ==
    [id |-> "u1",
     accountConfirmedAt |-> confirmedAt,
     refreshTokens |-> [i \in 1..n |-> i],
     profiles |-> <<[id |-> "p1", mainProfile |-> TRUE],
                    [id |-> "p2", mainProfile |-> FALSE]>>,
     markedForDeletion |-> marked]

Init ==
    /\ db = InitUser(MaxRefreshTokens, 0, 1)
    /\ now = 1
    /\ nextRT = MaxRefreshTokens + 1
    /\ pc = [p \in Handlers |-> "idle"]
    /\ call = [p \in Handlers |-> NoCall]
    /\ local = [p \in Handlers |-> NoUser]
    /\ out = NoCall
    /\ exchanged = {}
    /\ revoked = {}
    /\ users = <<>>
    /\ tempTokens = {}
    /\ reminders = <<>>
    /\ lastTempTokenDeleteTime = 0
    /\ cleanups = <<>>

\* refresh tokens minted so far; those of requests in flight are not yet handed out
IssuedRT == 1..(nextRT - 1)

\* the refresh tokens clients present: none, one never issued, those of two devices
RTInputs == {EmptyRT, BogusRT, 1, 2}

----------------------------------------------------------------------------
(* pkg/grpc/service/endpoints_jwt.go *)

\* a variant that lets an expired token through
ValidateJWT_rejectsLax(v) == v.err # "" /\ v.err # "expired"

\* ValidateJWT: err != nil || !ok
ValidateJWT_rejects(v) == v.err # "" \/ ~v.ok

ValidateJWT ==
    /\ \E c \in AccessTokens \cup {NoClaims}, tampered \in BOOLEAN :
         /\ c = NoClaims => ~tampered
         /\ out' = Return(Call("ValidateJWT", c, tampered, EmptyRT),
              IF c = NoClaims
              THEN ErrorResp("InvalidArgument", "missing arguments")
              ELSE LET v == ValidateToken(c, tampered, now)
                   IN  IF ValidateJWT_rejects(v)
                       THEN ErrorResp("InvalidArgument", "invalid token")
                       ELSE [kind |-> "TokenInfos", claims |-> v.claims])
    /\ UNCHANGED <<db, now, nextRT, pc, call, local, exchanged, revoked, users, tempTokens,
                   reminders, lastTempTokenDeleteTime, cleanups>>

\* a variant without the exception for expired tokens
RenewJWT_rejectsStrict(v) == v.err # ""

\* RenewJWT: err != nil && !strings.Contains(err.Error(), "token is expired by")
RenewJWT_rejects(v) == v.err # "" /\ v.err # "expired"

\* a variant that keeps the presented refresh token in the list
RenewJWT_userKeep(user, newRefreshToken, rt) ==
    AddRefreshToken(user, newRefreshToken)

\* the user RenewJWT hands to UpdateUser
RenewJWT_user(user, newRefreshToken, rt) ==
    AddRefreshToken(RemoveRefreshToken(user, rt).user, newRefreshToken)

\* the access token RenewJWT mints
RenewJWT_token(parsedToken, user, t) ==
    LET prof == GetMainAndOtherProfiles(user)
    IN  GenerateNewToken(parsedToken.id, user.accountConfirmedAt > 0, prof.main,
                         GetRolesFromPayload(parsedToken.payload), parsedToken.instanceId,
                         GetUsernameFromPayload(parsedToken.payload), prof.others, t)

\* RenewJWT up to the point where the handler has the user from GetUserByID; the
\* code between the two database calls works on the handler's copy and is taken
\* with UpdateUser
RenewJWT_Load(p) ==
    /\ pc[p] = "idle"
    /\ \E at \in AccessTokens \cup {NoClaims}, tampered \in BOOLEAN, rt \in RTInputs :
         /\ at = NoClaims => ~tampered /\ rt \in {EmptyRT, 1}
         /\ rt = EmptyRT => ~tampered /\ at \in {NoClaims, Tok}
         /\ tampered => rt = 1
         /\ IF at = NoClaims \/ rt = EmptyRT
            THEN /\ out' = Return(Call("RenewJWT", at, tampered, rt),
                                  ErrorResp("InvalidArgument", "missing arguments"))
                 /\ UNCHANGED <<pc, call, local, nextRT>>
            ELSE IF RenewJWT_rejects(ValidateToken(at, tampered, now))
            THEN /\ out' = Return(Call("RenewJWT", at, tampered, rt),
                                  ErrorResp("PermissionDenied", "wrong access token"))
                 /\ UNCHANGED <<pc, call, local, nextRT>>
            ELSE LET got == GetUserByID(at.id)
                     c   == [Call("RenewJWT", at, tampered, rt) EXCEPT !.loaded = TRUE,
                                !.found = ~got.err,
                                !.held = (~got.err /\ rt \in Range(got.user.refreshTokens)),
                                !.marked = (~got.err /\ got.user.markedForDeletion > 0)]
                 IN  IF got.err
                     THEN /\ out' = Return(c, ErrorResp("Internal", "user not found"))
                          /\ UNCHANGED <<pc, call, local, nextRT>>
                     ELSE IF RemoveRefreshToken(got.user, rt).err
                     THEN /\ out' = ReturnLogged(c, ErrorResp("Internal", "wrong refresh token"),
                                                 "SECURITY/TOKEN_REFRESH_FAILED")
                          /\ UNCHANGED <<pc, call, local, nextRT>>
                     ELSE /\ nextRT < MaxRefreshTokens + 1 + MaxIssue
                          /\ local' = [local EXCEPT ![p] = got.user]
                          /\ call' = [call EXCEPT ![p] =
                               [c EXCEPT !.newRefreshToken = nextRT,
                                         !.before = RemoveRefreshToken(got.user, rt).user.refreshTokens]]
                          /\ nextRT' = nextRT + 1
                          /\ pc' = [pc EXCEPT ![p] = "renew_save"]
                          /\ out' = NoCall
    /\ UNCHANGED <<db, now, exchanged, revoked, users, tempTokens,
                   reminders, lastTempTokenDeleteTime, cleanups>>

RenewJWT_Save(p) ==
    /\ pc[p] = "renew_save"
    /\ LET newToken == RenewJWT_token(call[p].at, local[p], now)
           upd == UpdateUser(RenewJWT_user(local[p], call[p].newRefreshToken, call[p].rt), now)
       IN  IF upd.err
           THEN /\ out' = Return(call[p], ErrorResp("Internal", "mongo: no documents in result"))
                /\ UNCHANGED <<db, exchanged>>
           ELSE /\ db' = upd.user
                /\ out' = ReturnLogged(
                     [call[p] EXCEPT !.wrote = TRUE, !.newToken = newToken,
                                     !.double = (call[p].rt \in exchanged)],
                     [kind |-> "TokenResponse",
                      accessToken |-> newToken,
                      refreshToken |-> call[p].newRefreshToken,
                      accountConfirmed |-> upd.user.accountConfirmedAt > 0,
                      selectedProfileId |-> call[p].at.profileId],
                     "LOG/TOKEN_REFRESH_SUCCESS")
                /\ exchanged' = exchanged \cup {call[p].rt}
    /\ pc' = [pc EXCEPT ![p] = "idle"]
    /\ call' = [call EXCEPT ![p] = NoCall]
    /\ local' = [local EXCEPT ![p] = NoUser]
    /\ UNCHANGED <<now, nextRT, revoked, users, tempTokens,
                   reminders, lastTempTokenDeleteTime, cleanups>>

\* user.Account.RefreshTokens = []string{}
RevokeAllRefreshTokens_user(user) == [user EXCEPT !.refreshTokens = <<>>]

RevokeCall(id) ==
    [Call("RevokeAllRefreshTokens", NoClaims, FALSE, EmptyRT)
        EXCEPT !.at = [id |-> id], !.replay = FALSE, !.loaded = (id # ""),
               !.found = (id # "" /\ ~GetUserByID(id).err)]

RevokeAllRefreshTokens_Load(p) ==
    /\ pc[p] = "idle"
    /\ \E id \in {"", "u1"} :
         IF id = ""
         THEN /\ out' = Return(RevokeCall(id), ErrorResp("InvalidArgument", "missing arguments"))
              /\ UNCHANGED <<pc, call, local>>
         ELSE LET got == GetUserByID(id)
              IN  IF got.err
                  THEN /\ out' = Return(RevokeCall(id), ErrorResp("Internal", "user not found"))
                       /\ UNCHANGED <<pc, call, local>>
                  ELSE /\ call' = [call EXCEPT ![p] = RevokeCall(id)]
                       /\ local' = [local EXCEPT ![p] = RevokeAllRefreshTokens_user(got.user)]
                       /\ pc' = [pc EXCEPT ![p] = "revoke_save"]
                       /\ out' = NoCall
    /\ UNCHANGED <<db, now, nextRT, exchanged, revoked, users, tempTokens,
                   reminders, lastTempTokenDeleteTime, cleanups>>

RevokeAllRefreshTokens_Save(p) ==
    /\ pc[p] = "revoke_save"
    /\ LET upd == UpdateUser(local[p], now)
       IN  IF upd.err
           THEN /\ out' = Return(call[p], ErrorResp("Internal", "user not found"))
                /\ UNCHANGED <<db, revoked>>
           ELSE /\ db' = upd.user
                /\ out' = Return([call[p] EXCEPT !.wrote = TRUE],
                     [kind |-> "ServiceStatus", msg |-> "refresh tokens revoked"])
                /\ revoked' = revoked \cup (IssuedRT \ {call[q].newRefreshToken : q \in Handlers})
    /\ pc' = [pc EXCEPT ![p] = "idle"]
    /\ call' = [call EXCEPT ![p] = NoCall]
    /\ local' = [local EXCEPT ![p] = NoUser]
    /\ UNCHANGED <<now, nextRT, exchanged, users, tempTokens,
                   reminders, lastTempTokenDeleteTime, cleanups>>

----------------------------------------------------------------------------
(* LoginWithEmail, success path: a refresh token is appended to the user,   *)
(* the user is saved and UpdateLoginTime clears the deletion mark; the      *)
(* writes of the success path are taken as one step                         *)

LoginCall(user, rt) ==
    [Call("LoginWithEmail", NoClaims, FALSE, EmptyRT)
        EXCEPT !.at = [id |-> user.id], !.replay = FALSE, !.loaded = TRUE, !.found = TRUE,
               !.newRefreshToken = rt, !.before = user.refreshTokens]

\* UpdateMarkedForDeletionTime: the document after the call
UpdateMarkedForDeletionTime(user, dT2, reset, t) ==
    IF user = NoUser THEN user
    ELSE IF reset THEN [user EXCEPT !.markedForDeletion = 0]
    ELSE IF ~(user.markedForDeletion > 0)
         THEN [user EXCEPT !.markedForDeletion = t + dT2]
         ELSE user

\* UpdateLoginTime ends with UpdateMarkedForDeletionTime(instanceID, id, 0, true)
UpdateLoginTime(user, t) == UpdateMarkedForDeletionTime(user, 0, TRUE, t)

LoginWithEmail_Load(p) ==
    /\ pc[p] = "idle"
    /\ nextRT < MaxRefreshTokens + 1 + MaxIssue
    /\ LET got == GetUserByID("u1")
       IN  /\ ~got.err
           /\ local' = [local EXCEPT ![p] = AddRefreshToken(got.user, nextRT)]
           /\ call' = [call EXCEPT ![p] = LoginCall(got.user, nextRT)]
    /\ nextRT' = nextRT + 1
    /\ pc' = [pc EXCEPT ![p] = "login_save"]
    /\ out' = NoCall
    /\ UNCHANGED <<db, now, exchanged, revoked, users, tempTokens,
                   reminders, lastTempTokenDeleteTime, cleanups>>

LoginWithEmail_Save(p) ==
    /\ pc[p] = "login_save"
    /\ LET upd == UpdateUser(local[p], now)
       IN  IF upd.err
           THEN /\ out' = Return(call[p], ErrorResp("Internal", "mongo: no documents in result"))
                /\ db' = db
           ELSE /\ db' = UpdateLoginTime(upd.user, now)
                /\ out' = Return([call[p] EXCEPT !.wrote = TRUE],
                     [kind |-> "LoginResponse", refreshToken |-> call[p].newRefreshToken])
    /\ pc' = [pc EXCEPT ![p] = "idle"]
    /\ call' = [call EXCEPT ![p] = NoCall]
    /\ local' = [local EXCEPT ![p] = NoUser]
    /\ UNCHANGED <<now, nextRT, exchanged, revoked, users, tempTokens,
                   reminders, lastTempTokenDeleteTime, cleanups>>

DeleteUser ==
    /\ db # NoUser
    /\ db' = NoUser
    /\ out' = NoCall
    /\ UNCHANGED <<now, nextRT, pc, call, local, exchanged, revoked, users, tempTokens,
                   reminders, lastTempTokenDeleteTime, cleanups>>

Tick ==
    /\ now < MaxTime
    /\ now' = now + 1
    /\ out' = NoCall
    /\ UNCHANGED <<db, nextRT, pc, call, local, exchanged, revoked, users, tempTokens,
                   reminders, lastTempTokenDeleteTime, cleanups>>

Next ==
    \/ Tick
    \/ DeleteUser
    \/ ValidateJWT
    \/ \E p \in Handlers : RenewJWT_Load(p)
    \/ \E p \in Handlers : RenewJWT_Save(p)
    \/ \E p \in Handlers : RevokeAllRefreshTokens_Load(p)
    \/ \E p \in Handlers : RevokeAllRefreshTokens_Save(p)
    \/ \E p \in Handlers : LoginWithEmail_Load(p)
    \/ \E p \in Handlers : LoginWithEmail_Save(p)

Spec == Init /\ [][Next]_vars

----------------------------------------------------------------------------
(* Properties.  `out` holds a request only in the state its returning step *)
(* leads to, so `db` there is the stored user as that step left it.         *)

Renewed == out.op = "RenewJWT" /\ out.resp.kind = "TokenResponse"

Failed(msg) == out.resp.kind = "error" /\ out.resp.msg = msg

Stored == IF db = NoUser THEN {} ELSE Range(db.refreshTokens)

\* C1: a refresh token is exchanged at most once: no RenewJWT returns a
\* TokenResponse for a refresh token that an earlier RenewJWT already exchanged,
\* whatever the interleaving of the calls.
C1_ExchangedAtMostOnce == ~(Renewed /\ out.double)

\* C2: once a RenewJWT presenting R has succeeded, every RenewJWT that starts
\* later with R (and gets as far as the loaded user) fails with "wrong refresh
\* token", logs the SECURITY event TOKEN_REFRESH_FAILED and returns no tokens.
C2_ReplayDetected ==
    (out.op = "RenewJWT" /\ out.replay /\ out.found)
        => /\ Failed("wrong refresh token")
           /\ out.log = "SECURITY/TOKEN_REFRESH_FAILED"

IsNewestOf(kept, all) ==
    /\ Len(kept) = IF Len(all) > MaxRefreshTokens THEN MaxRefreshTokens ELSE Len(all)
    /\ \A i \in 1..Len(kept) : kept[i] = all[i + Len(all) - Len(kept)]

Adds(p) ==
    /\ pc[p] \in {"login_save", "renew_save"}
    /\ pc'[p] # pc[p]
    /\ db' # db
    /\ db' # NoUser

C4_SlotsStep ==
    \A p \in Handlers :
        Adds(p) => IsNewestOf(db'.refreshTokens,
                              Append(call[p].before, call[p].newRefreshToken))

C5_RevokedStayRevoked ==
    /\ Stored \cap revoked = {}
    /\ ~(Renewed /\ out.rt \in revoked)

\* C6: the access token of a TokenResponse carries the id, instanceId,
\* profileId, roles and username of the presented access token.
C6_ClaimsPreserved ==
    Renewed => /\ out.resp.accessToken.id = out.at.id
               /\ out.resp.accessToken.instanceId = out.at.instanceId
               /\ out.resp.accessToken.profileId = out.at.profileId
               /\ out.resp.accessToken.payload.roles = out.at.payload.roles
               /\ out.resp.accessToken.payload.username = out.at.payload.username

\* C7: when RenewJWT succeeds for a user that was marked for deletion when it
\* was loaded, the stored user's markedForDeletion is 0.
C7_RenewalUnmarks ==
    (Renewed /\ out.marked) => db.markedForDeletion = 0

\* C8: RenewJWT lets through an access token whose only fault is that it is
\* expired, and returns tokens if the refresh token is held (unless the user
\* is deleted before the save); a token that fails verification otherwise is
\* rejected with no user loaded or written, and no such request is in flight.
C8_Rejected ==
    (out.op = "RenewJWT" /\ out.tampered)
        => /\ ~out.loaded /\ ~out.wrote
           /\ out.resp = ErrorResp("PermissionDenied", "wrong access token")

C8_ExpiredAccepted ==
    (out.op = "RenewJWT" /\ ~out.tampered /\ out.expired /\ out.rt # EmptyRT)
        => /\ ~Failed("wrong access token")
           /\ out.loaded
           /\ out.held => (Renewed \/ Failed("mongo: no documents in result"))

C8_OnlyExpiredAccepted ==
    /\ C8_Rejected
    /\ C8_ExpiredAccepted
    /\ \A p \in Handlers : ~call[p].tampered

C8_Witness == Renewed /\ out.expired /\ out.held

\* C9: RenewJWT fails with the message "refresh token error" when the access
\* token is malformed and when the refresh token is not one the user holds.
C9_RefreshTokenError ==
    (out.op = "RenewJWT" /\ (out.tampered \/ (out.found /\ ~out.held)))
        => Failed("refresh token error")

\* C10: ValidateJWT returns no claims for a token that is tampered with or
\* expired: it fails with "invalid token".
C10_InvalidToken ==
    (out.op = "ValidateJWT" /\ out.at # NoClaims /\ (out.tampered \/ out.expired))
        => out.resp = ErrorResp("InvalidArgument", "invalid token")

C10_Witness ==
    /\ out.op = "ValidateJWT" /\ out.expired /\ ~out.tampered
    /\ Failed("invalid token")

----------------------------------------------------------------------------
(* Account management (account_management_endpoints.go) over the users     *)
(* collection of one instance and the temp-token collection.  A user       *)
(* document here carries the account, the contact entries, the profiles    *)
(* and the contact preferences.                                            *)

UserIDs == {"u1", "u2", "u3", "u4"}

Emails == {"a@x", "b@x", "c@x"}

NoContact == [id |-> "", type |-> "", email |-> "", confirmedAt |-> 0]

\* the id of a new contact entry: unique among the contacts of a user
NewContactID(addr) == "ci-" \o addr

(* pwhash *)

HashPassword(plain) == <<"hash", plain>>

ComparePasswordWithHash(hash, plain) == hash = HashPassword(plain)

\* utils.CheckPasswordFormat over the passwords clients send
CheckPasswordFormat(plain) == plain \notin {"", "weak"}

(* pkg/models: contacts of the user aggregate.  AddNewEmail keeps the addresses
   of the ContactInfos slice distinct and no operation reads its order, so the
   slice is the set of its entries *)

FindContactInfoByTypeAndAddr(user, t, addr) ==
    LET hits == {ci \in user.contactInfos : ci.type = t /\ ci.email = addr}
    IN  IF hits # {}
        THEN [found |-> TRUE, ci |-> CHOOSE ci \in hits : TRUE]
        ELSE [found |-> FALSE, ci |-> NoContact]

AddNewEmail(user, addr, confirmed, t) ==
    IF FindContactInfoByTypeAndAddr(user, "email", addr).found
    THEN user
    ELSE [user EXCEPT !.contactInfos =
            @ \cup {[id |-> NewContactID(addr), type |-> "email", email |-> addr,
                     confirmedAt |-> IF confirmed THEN t ELSE 0]}]

RemoveContactInfo(user, id) ==
    LET hits == {ci \in user.contactInfos : ci.id = id}
    IN  IF hits = {}
        THEN [err |-> "contact not found", user |-> user]
        ELSE IF \E ci \in hits : ci.type = "email" /\ ci.email = user.accountId
        THEN [err |-> "cannot-remove-primary-email", user |-> user]
        ELSE [err |-> "", user |-> [user EXCEPT !.contactInfos = @ \ hits]]

ReplaceContactInfoInContactPreferences(user, oldId, newId) ==
    [user EXCEPT !.contactPreferences.sendNewsletterTo =
        [i \in 1..Len(@) |-> IF @[i] = oldId THEN newId ELSE @[i]]]

(* pkg/models: profiles of the user aggregate *)

\* the id of a new profile: unique among the profiles of a user
NewProfileID(user) ==
    CHOOSE n \in 1..(Len(user.profiles) + 1) :
        /\ \A i \in 1..Len(user.profiles) : user.profiles[i].id # n
        /\ \A m \in 1..(n - 1) : \E i \in 1..Len(user.profiles) : user.profiles[i].id = m

AddProfile(user, alias) ==
    [user EXCEPT !.profiles =
        Append(@, [id |-> NewProfileID(user), alias |-> alias, mainProfile |-> Len(@) = 0])]

UpdateProfile(user, id, alias) ==
    IF \E i \in 1..Len(user.profiles) : user.profiles[i].id = id
    THEN [err |-> "",
          user |-> [user EXCEPT !.profiles =
                      [i \in 1..Len(@) |-> IF @[i].id = id THEN [@[i] EXCEPT !.alias = alias]
                                           ELSE @[i]]]]
    ELSE [err |-> "profile with given ID not found", user |-> user]

\* removing the main profile promotes the next one; the last profile stays
RemoveProfile(user, id) ==
    LET rest == SelectSeq(user.profiles, LAMBDA pr : pr.id # id)
    IN  IF Len(rest) = Len(user.profiles)
        THEN [err |-> "profile with given ID not found", user |-> user]
        ELSE IF Len(rest) = 0
        THEN [err |-> "cannot remove last profile", user |-> user]
        ELSE [err |-> "",
              user |-> [user EXCEPT !.profiles =
                          IF \E i \in 1..Len(rest) : rest[i].mainProfile
                          THEN rest
                          ELSE [i \in 1..Len(rest) |->
                                  IF i = 1 THEN [rest[i] EXCEPT !.mainProfile = TRUE]
                                  ELSE rest[i]]]]

(* pkg/dbs/userdb over the collection *)

GetUserByIDFrom(coll, id) ==
    IF id \in DOMAIN coll /\ coll[id] # NoUser
    THEN [err |-> FALSE, user |-> coll[id]]
    ELSE [err |-> TRUE, user |-> NoUser]

UsersWithAccountID(coll, accountID) ==
    {id \in DOMAIN coll : coll[id] # NoUser /\ coll[id].accountId = accountID}

\* FindOne by account.accountID: only whether a document was found is used
GetUserByAccountIDFrom(coll, accountID) ==
    [err |-> UsersWithAccountID(coll, accountID) = {}]

\* a variant of UpdateUser that inserts the document when none matches
UpdateUserIn_upsert(coll, updatedUser) ==
    [err |-> FALSE, coll |-> [coll EXCEPT ![updatedUser.id] = updatedUser],
     user |-> updatedUser]

\* FindOneAndReplace by _id
UpdateUserIn(coll, updatedUser) ==
    IF GetUserByIDFrom(coll, updatedUser.id).err
    THEN [err |-> TRUE, coll |-> coll, user |-> NoUser]
    ELSE [err |-> FALSE, coll |-> [coll EXCEPT ![updatedUser.id] = updatedUser],
          user |-> updatedUser]

\* DeleteOne by _id: an error when no document was deleted
DeleteUserFrom(coll, id) ==
    IF GetUserByIDFrom(coll, id).err
    THEN [err |-> TRUE, coll |-> coll]
    ELSE [err |-> FALSE, coll |-> [coll EXCEPT ![id] = NoUser]]

(* pkg/dbs/globaldb: the temp-token collection (a set of token documents) *)

\* the string of a new token: unique among the stored tokens
NewTokenString(coll, userID, purpose) ==
    LET used == {t.token[3] : t \in {x \in coll : x.userId = userID /\ x.purpose = purpose}}
    IN  <<userID, purpose, CHOOSE n \in 1..(Cardinality(coll) + 1) :
                               n \notin used /\ \A m \in 1..(n - 1) : m \in used>>

AddTempToken(coll, userID, purpose, info, expiration) ==
    coll \cup {[token |-> NewTokenString(coll, userID, purpose), userId |-> userID,
                purpose |-> purpose, info |-> info, expiration |-> expiration]}

GetTempTokenForUser(coll, userID, purpose) ==
    {t \in coll : t.userId = userID /\ (purpose = "" \/ t.purpose = purpose)}

\* DeleteMany by user id, and by purpose unless the purpose is empty
DeleteAllTempTokenForUser(coll, userID, purpose) ==
    coll \ GetTempTokenForUser(coll, userID, purpose)

\* tokens.GetExpirationTime, in days
GetExpirationTime(t, validityPeriod) == t + validityPeriod

RestoreAccountIDLifetime == 7
ContactVerificationLifetime == 30

(* Requests of the account endpoints *)

\* a SendEmailReq of MessagingService.SendInstantEmail
Email(to, messageType) == [to |-> to, type |-> messageType]

AcctCall(op, tokenId) ==
    [op |-> op, tokenId |-> tokenId, userId |-> "", email |-> "", keepOldEmail |-> FALSE,
     password |-> "", id |-> "", purpose |-> "", need |-> 0, sent |-> <<>>,
     resp |-> NoResp, log |-> ""]

UserResp(user) == [kind |-> "User", user |-> user]

Passwords == {"pw1", "bad"}

\* the token ids callers present; "" is utils.IsTokenEmpty
TokenIDs == {"", "u1", "u2"}

\* utils.SanitizeEmail over the addresses clients send
SanitizeEmail(addr) == IF addr = " C@X " THEN "c@x" ELSE addr

CheckEmailFormat(addr) == addr \in Emails

EmailInputs == Emails \cup {"", "bad", " C@X "}

\* temp-tokens the requests in flight will still add
Reserved == LET RECURSIVE Sum(_)
                Sum(S) == IF S = {} THEN 0
                          ELSE LET q == CHOOSE x \in S : TRUE
                               IN  (IF pc[q] = "idle" THEN 0 ELSE call[q].need) + Sum(S \ {q})
            IN  Sum(Handlers)

AcctUser(id, accountId, confirmedAt, contacts) ==
    [id |-> id, accountId |-> accountId, type |-> "email",
     accountConfirmedAt |-> confirmedAt, password |-> HashPassword("pw1"),
     contactInfos |-> contacts,
     profiles |-> <<[id |-> 1, alias |-> accountId, mainProfile |-> TRUE]>>,
     contactPreferences |-> [subscribedToNewsletter |-> TRUE,
                             sendNewsletterTo |-> <<NewContactID(accountId)>>]]

Contact(addr, confirmedAt) ==
    [id |-> NewContactID(addr), type |-> "email", email |-> addr, confirmedAt |-> confirmedAt]

----------------------------------------------------------------------------
(* Account id and contacts: AddUser, ChangeAccountIDEmail, AddEmail, RemoveEmail *)

MaxTempTokens == 1

SessionIdle ==
    UNCHANGED <<db, nextRT, exchanged, revoked, reminders, lastTempTokenDeleteTime, cleanups>>

AcctInit ==
    /\ db = NoUser
    /\ now = 1
    /\ nextRT = 0
    /\ pc = [p \in Handlers |-> "idle"]
    /\ call = [p \in Handlers |-> NoCall]
    /\ local = [p \in Handlers |-> NoUser]
    /\ out = NoCall
    /\ exchanged = {}
    /\ revoked = {}
    /\ reminders = <<>>
    /\ lastTempTokenDeleteTime = 0
    /\ cleanups = <<>>

\* a confirmed and an unconfirmed account; c@x is a confirmed contact of both
AccountIDInit ==
    /\ AcctInit
    /\ tempTokens = {}
    /\ users = [id \in UserIDs |->
                  IF id = "u1"
                  THEN AcctUser("u1", "a@x", 1, {Contact("a@x", 1), Contact("c@x", 1)})
                  ELSE IF id = "u2"
                  THEN AcctUser("u2", "b@x", 0, {Contact("b@x", 0), Contact("c@x", 1)})
                  ELSE NoUser]

Done(p, r) ==
    /\ out' = r
    /\ pc' = [pc EXCEPT ![p] = "idle"]
    /\ call' = [call EXCEPT ![p] = NoCall]
    /\ local' = [local EXCEPT ![p] = NoUser]

Goto(p, label, c, user) ==
    /\ out' = NoCall
    /\ pc' = [pc EXCEPT ![p] = label]
    /\ call' = [call EXCEPT ![p] = c]
    /\ local' = [local EXCEPT ![p] = user]

FreeIDs == {id \in UserIDs : users[id] = NoUser}

\* the _id of an upserted document
NewUserID == CHOOSE id \in FreeIDs : \A other \in FreeIDs : other = "u4" \/ id # "u4"

\* the user SignupWithEmail hands to AddUser
NewUser(id, email) == AcctUser(id, email, 0, {Contact(email, 0)})

\* AddUser, query phase of the upsert.  No unique index covers account.accountID
\* (CreateIndexForUser creates none), so the insert that follows a miss is a
\* separate write of the database
AddUser_Query(p) ==
    /\ pc[p] = "idle"
    /\ \E email \in Emails :
         LET c == [AcctCall("AddUser", "") EXCEPT !.email = email]
         IN  IF UsersWithAccountID(users, email) # {}
             THEN Done(p, Return(c, ErrorResp("Internal", "user already exists")))
             ELSE /\ Cardinality(FreeIDs) >
                       Cardinality({q \in Handlers : pc[q] = "add_insert"})
                  /\ Goto(p, "add_insert", c, NoUser)
    /\ UNCHANGED <<now, users, tempTokens>>
    /\ SessionIdle

\* AddUser, insert phase of the upsert
AddUser_Insert(p) ==
    /\ pc[p] = "add_insert"
    /\ users' = [users EXCEPT ![NewUserID] = NewUser(NewUserID, call[p].email)]
    /\ Done(p, Return([call[p] EXCEPT !.userId = NewUserID],
                      [kind |-> "id", id |-> NewUserID]))
    /\ UNCHANGED <<now, tempTokens>>
    /\ SessionIdle

\* lines 171-186 of ChangeAccountIDEmail: the account moves to the new address
ChangeAccountIDEmail_accountKeep(user, newEmail, t) ==
    LET aliased == IF user.profiles[1].alias = user.accountId
                   THEN [user EXCEPT !.profiles[1].alias = newEmail]
                   ELSE user
        moved == [aliased EXCEPT !.accountId = newEmail]
        hit == FindContactInfoByTypeAndAddr(moved, "email", newEmail)
    IN  IF hit.found
        THEN IF hit.ci.confirmedAt > 0
             THEN [moved EXCEPT !.accountConfirmedAt = hit.ci.confirmedAt]
             ELSE moved
        ELSE AddNewEmail(moved, newEmail, FALSE, t)

ChangeAccountIDEmail_account(user, newEmail, t) ==
    LET aliased == IF user.profiles[1].alias = user.accountId
                   THEN [user EXCEPT !.profiles[1].alias = newEmail]
                   ELSE user
        moved == [aliased EXCEPT !.accountId = newEmail, !.accountConfirmedAt = -1]
        hit == FindContactInfoByTypeAndAddr(moved, "email", newEmail)
    IN  IF hit.found
        THEN IF hit.ci.confirmedAt > 0
             THEN [moved EXCEPT !.accountConfirmedAt = hit.ci.confirmedAt]
             ELSE moved
        ELSE AddNewEmail(moved, newEmail, FALSE, t)

\* the user ChangeAccountIDEmail saves; an error of RemoveContactInfo is only logged
ChangeAccountIDEmail_user(user, newEmail, keepOldEmail, t) ==
    LET oldCI == FindContactInfoByTypeAndAddr(user, "email", user.accountId).ci
        moved == ChangeAccountIDEmail_account(user, newEmail, t)
        newCI == FindContactInfoByTypeAndAddr(moved, "email", newEmail).ci
        pref == ReplaceContactInfoInContactPreferences(moved, oldCI.id, newCI.id)
    IN  IF keepOldEmail THEN pref ELSE RemoveContactInfo(pref, oldCI.id).user

\* the temp-tokens a change of the account id adds
ChangeAccountIDEmail_need(user, newEmail, t) ==
    (IF user.accountConfirmedAt > 0 THEN 1 ELSE 0)
    + (IF ChangeAccountIDEmail_account(user, newEmail, t).accountConfirmedAt <= 0 THEN 1 ELSE 0)

\* ChangeAccountIDEmail up to "is email address still free to use?" and the
\* restore token of a confirmed account: the reads GetUserByID and
\* GetUserByAccountID are one step, the write UpdateUser is the next
ChangeAccountIDEmail_Load(p) ==
    /\ pc[p] = "idle"
    /\ \E tokenId \in TokenIDs :
         LET c == AcctCall("ChangeAccountIDEmail", tokenId)
             got == GetUserByIDFrom(users, tokenId)
             user == got.user
         IN  IF tokenId = ""
             THEN /\ Done(p, Return(c, ErrorResp("InvalidArgument", "missing argument")))
                  /\ UNCHANGED tempTokens
             ELSE \E raw \in EmailInputs :
                    LET newEmail == SanitizeEmail(raw)
                    IN  IF raw = ""
                        THEN /\ Done(p, Return(c, ErrorResp("InvalidArgument", "missing argument")))
                             /\ UNCHANGED tempTokens
                        ELSE IF ~CheckEmailFormat(newEmail)
                        THEN /\ Done(p, Return(c, ErrorResp("InvalidArgument", "email not valid")))
                             /\ UNCHANGED tempTokens
                        ELSE IF got.err
                        THEN /\ Done(p, Return(c, ErrorResp("Internal", "user not found")))
                             /\ UNCHANGED tempTokens
                        ELSE \E password \in Passwords :
                               IF ~ComparePasswordWithHash(user.password, password)
                               THEN /\ Done(p, ReturnLogged(c,
                                                  ErrorResp("InvalidArgument", "action failed"),
                                                  "AUTH_WRONG_PASSWORD"))
                                    /\ UNCHANGED tempTokens
                               ELSE IF ~GetUserByAccountIDFrom(users, newEmail).err
                               THEN /\ Done(p, Return(c, ErrorResp("Internal", "action failed")))
                                    /\ UNCHANGED tempTokens
                               ELSE IF user.type # "email"
                               THEN /\ Done(p, Return(c, ErrorResp("Internal",
                                                                  "account is not email type")))
                                    /\ UNCHANGED tempTokens
                               ELSE IF ~FindContactInfoByTypeAndAddr(user, "email",
                                                                     user.accountId).found
                               THEN /\ Done(p, Return(c, ErrorResp("Internal",
                                                                  "old contact info not found")))
                                    /\ UNCHANGED tempTokens
                               ELSE   LET need == ChangeAccountIDEmail_need(user, newEmail, now)
                                          held == [c EXCEPT !.email = newEmail, !.need = need]
                                      IN  /\ Cardinality(tempTokens) + Reserved + need
                                               <= MaxTempTokens
                                          /\ IF user.accountConfirmedAt > 0
                                             THEN /\ tempTokens' =
                                                       AddTempToken(tempTokens, user.id,
                                                           "restore-account-id",
                                                           <<user.accountId, newEmail>>,
                                                           GetExpirationTime(now,
                                                               RestoreAccountIDLifetime))
                                                  /\ Goto(p, "chg_save",
                                                          [held EXCEPT !.need = @ - 1,
                                                             !.sent = <<Email(user.accountId,
                                                                 "account-id-changed")>>],
                                                          user)
                                             ELSE /\ Goto(p, "chg_save", held, user)
                                                  /\ UNCHANGED tempTokens
    /\ UNCHANGED <<now, users>>
    /\ SessionIdle

\* the new account id, the verification token for an unconfirmed one, UpdateUser.
\* KeepOldEmail of the request is first read here
ChangeAccountIDEmail_Save(p) ==
    /\ pc[p] = "chg_save"
    /\ \E keepOldEmail \in BOOLEAN :
       LET user == ChangeAccountIDEmail_user(local[p], call[p].email, keepOldEmail, now)
           unconfirmed == user.accountConfirmedAt <= 0
           c == [call[p] EXCEPT !.keepOldEmail = keepOldEmail,
                                !.sent = IF unconfirmed
                                         THEN Append(@, Email(user.accountId, "verify-email"))
                                         ELSE @]
           tokens == IF unconfirmed
                     THEN AddTempToken(tempTokens, user.id, "contact-verification",
                              <<"email", user.accountId>>,
                              GetExpirationTime(now, ContactVerificationLifetime))
                     ELSE tempTokens
           upd == UpdateUserIn(users, user)
       IN  IF ~FindContactInfoByTypeAndAddr(user, "email", c.email).found
           THEN /\ Done(p, Return([c EXCEPT !.sent = call[p].sent],
                                   ErrorResp("Internal", "new contact info not found")))
                /\ UNCHANGED <<users, tempTokens>>
           ELSE /\ tempTokens' = tokens
                /\ users' = upd.coll
                /\ IF upd.err
                   THEN Done(p, Return(c, ErrorResp("Internal", "not found")))
                   ELSE Done(p, ReturnLogged(c, UserResp(upd.user), "ACCOUNT_ID_CHANGED"))
    /\ UNCHANGED now
    /\ SessionIdle

ContactTypes == {"email", "phone"}

AddEmail_Load(p) ==
    /\ pc[p] = "idle"
    /\ \E tokenId \in TokenIDs, type \in ContactTypes :
         LET c == AcctCall("AddEmail", tokenId)
         IN  IF tokenId = ""
             THEN Done(p, Return(c, ErrorResp("InvalidArgument", "missing argument")))
             ELSE IF type # "email"
             THEN Done(p, Return(c, ErrorResp("InvalidArgument", "wrong contact type")))
             ELSE \E raw \in EmailInputs :
                    LET email == SanitizeEmail(raw)
                        got == GetUserByIDFrom(users, tokenId)
                    IN  IF ~CheckEmailFormat(email)
                        THEN Done(p, Return(c, ErrorResp("InvalidArgument", "email not valid")))
                        ELSE IF got.err
                        THEN Done(p, Return(c, ErrorResp("Internal", "user not found")))
                        ELSE /\ Cardinality(tempTokens) + Reserved + 1 <= MaxTempTokens
                             /\ Goto(p, "add_email_save",
                                     [c EXCEPT !.email = email, !.need = 1], got.user)
    /\ UNCHANGED <<now, users, tempTokens>>
    /\ SessionIdle

\* To: []string{user.Account.AccountID}
AddEmail_to(user, email) == user.accountId

AddEmail_Save(p) ==
    /\ pc[p] = "add_email_save"
    /\ LET user == AddNewEmail(local[p], call[p].email, FALSE, now)
           c == [call[p] EXCEPT !.sent = <<Email(AddEmail_to(user, call[p].email),
                                                "verify-email")>>]
           upd == UpdateUserIn(users, user)
       IN  /\ tempTokens' = AddTempToken(tempTokens, user.id, "contact-verification",
                                <<"email", c.email>>,
                                GetExpirationTime(now, ContactVerificationLifetime))
           /\ users' = upd.coll
           /\ IF upd.err
              THEN Done(p, Return(c, ErrorResp("Internal", "not found")))
              ELSE Done(p, Return(c, UserResp(upd.user)))
    /\ UNCHANGED now
    /\ SessionIdle

ContactIDs == {NewContactID(addr) : addr \in Emails}

\* RemoveEmail returns the error of RemoveContactInfo
RemoveEmail_rejectsNever(removed) == FALSE

RemoveEmail_rejects(removed) == removed.err # ""

RemoveEmail_Load(p) ==
    /\ pc[p] = "idle"
    /\ \E tokenId \in TokenIDs :
         LET c == AcctCall("RemoveEmail", tokenId)
             got == GetUserByIDFrom(users, tokenId)
         IN  IF tokenId = ""
             THEN Done(p, Return(c, ErrorResp("InvalidArgument", "missing argument")))
             ELSE IF got.err
             THEN Done(p, Return(c, ErrorResp("Internal", "user not found")))
             ELSE Goto(p, "rm_email_save", c, got.user)
    /\ UNCHANGED <<now, users, tempTokens>>
    /\ SessionIdle

\* ContactInfo.Id of the request is first read here
RemoveEmail_Save(p) ==
    /\ pc[p] = "rm_email_save"
    /\ \E id \in ContactIDs :
       LET c == [call[p] EXCEPT !.id = id]
           removed == RemoveContactInfo(local[p], c.id)
           upd == UpdateUserIn(users, removed.user)
       IN  IF RemoveEmail_rejects(removed)
           THEN /\ Done(p, Return(c, ErrorResp("Internal", removed.err)))
                /\ UNCHANGED users
           ELSE /\ users' = upd.coll
                /\ IF upd.err
                   THEN Done(p, Return(c, ErrorResp("Internal", "not found")))
                   ELSE Done(p, Return(c, UserResp(upd.user)))
    /\ UNCHANGED <<now, tempTokens>>
    /\ SessionIdle

ContactsNext ==
    \E p \in Handlers :
        \/ ChangeAccountIDEmail_Load(p)
        \/ ChangeAccountIDEmail_Save(p)
        \/ AddEmail_Load(p)
        \/ AddEmail_Save(p)
        \/ RemoveEmail_Load(p)
        \/ RemoveEmail_Save(p)

\* one account as signup leaves it, with a second contact that is confirmed
ContactsInit ==
    /\ AcctInit
    /\ tempTokens = {}
    /\ users = [id \in UserIDs |->
                  IF id = "u1"
                  THEN AcctUser("u1", "a@x", 0, {Contact("a@x", 0), Contact("c@x", 1)})
                  ELSE NoUser]

SpecContacts == ContactsInit /\ [][ContactsNext]_vars

SignupNext ==
    \E p \in Handlers :
        \/ AddUser_Query(p)
        \/ AddUser_Insert(p)
        \/ ChangeAccountIDEmail_Load(p)
        \/ ChangeAccountIDEmail_Save(p)

SpecSignup == AccountIDInit /\ [][SignupNext]_vars

----------------------------------------------------------------------------
(* Claims about the account id and the contacts *)

\* C11: no two stored users share an account.accountId, whatever the
\* interleaving of AddUser (signup) and ChangeAccountIDEmail: two users
\* changing to the same address, or a signup for the address a change moves to
C11_AccountIDUnique ==
    \A a, b \in UserIDs :
        (a # b /\ users[a] # NoUser /\ users[b] # NoUser)
            => users[a].accountId # users[b].accountId

\* C12: AddUser for an accountId that is stored fails with "user already
\* exists"; for an absent one it inserts the user and returns its id, and of
\* two concurrent calls for the same accountId exactly one inserts: the user
\* AddUser has inserted is the only one with its accountId
C12_AddUserOnce ==
    out.op = "AddUser" =>
        IF out.resp.kind = "error"
        THEN /\ out.resp.msg = "user already exists"
             /\ UsersWithAccountID(users, out.email) # {}
        ELSE /\ out.resp.kind = "id"
             /\ UsersWithAccountID(users, out.email) = {out.resp.id}

PrimaryContact(user) == FindContactInfoByTypeAndAddr(user, "email", user.accountId)

ConfirmedMatchesContact(user) ==
    user.accountConfirmedAt > 0
        <=> (PrimaryContact(user).found /\ PrimaryContact(user).ci.confirmedAt > 0)

\* the step in which handler p returns from the state `label`
Returns(p, label) == pc[p] = label /\ pc'[p] = "idle"

\* C16: through ChangeAccountIDEmail, AddEmail and RemoveEmail the account of
\* every stored user is confirmed (accountConfirmedAt > 0) exactly when the
\* email contact with the address of the account id is confirmed; a
\* ChangeAccountIDEmail that succeeds stores accountConfirmedAt = -1, unless
\* the new address was a confirmed contact of the user, whose confirmedAt it
\* then stores
C16_ConfirmedWithContact ==
    /\ [](\A id \in UserIDs : users[id] # NoUser => ConfirmedMatchesContact(users[id]))
    /\ [][\A p \in Handlers :
            (Returns(p, "chg_save") /\ out'.resp.kind = "User") =>
                LET was == FindContactInfoByTypeAndAddr(local[p], "email", call[p].email)
                    stored == users'[local[p].id]
                IN  /\ stored = out'.resp.user
                    /\ stored.accountId = call[p].email
                    /\ stored.accountConfirmedAt =
                         IF was.found /\ was.ci.confirmedAt > 0
                         THEN was.ci.confirmedAt
                         ELSE -1]_vars

C16_Witness ==
    /\ out.op = "ChangeAccountIDEmail"
    /\ out.resp.kind = "User"
    /\ out.resp.user.accountConfirmedAt = -1
    /\ users[out.tokenId] = out.resp.user

\* C17: through ChangeAccountIDEmail (keepOldEmail true or false), AddEmail
\* and RemoveEmail the contactInfos of every stored user hold an email entry
\* with the address of the account id; a RemoveEmail for that entry of the
\* user it loaded returns an error and writes nothing
C17_PrimaryContactKept ==
    /\ [](\A id \in UserIDs : users[id] # NoUser => PrimaryContact(users[id]).found)
    /\ [][\A p \in Handlers :
            (Returns(p, "rm_email_save") /\ out'.id = PrimaryContact(local[p]).ci.id) =>
                /\ out'.resp.kind = "error"
                /\ users' = users]_vars

C17_Witness ==
    /\ out.op = "RemoveEmail"
    /\ out.resp = ErrorResp("Internal", "cannot-remove-primary-email")
    /\ PrimaryContact(users[out.tokenId]).ci.id = out.id

----------------------------------------------------------------------------
(* Profiles: SaveProfile, RemoveProfile *)

\* the package constant of the profile limit
maximumProfilesAllowed == 6

\* req.Profile.Id of a new profile is ""
NewProfile == 0

\* the profile ids SaveProfile is called with: a new profile, the first
\* profile, a profile the user does not have
SaveProfileIDs == {NewProfile, 1, maximumProfilesAllowed + 2}

Aliases == {"kid"}

\* a user with n profiles
UserWithProfiles(id, accountId, n) ==
    [AcctUser(id, accountId, 1, {Contact(accountId, 1)}) EXCEPT
        !.profiles = [i \in 1..n |-> [id |-> i,
                                      alias |-> IF i = 1 THEN accountId ELSE "kid",
                                      mainProfile |-> i = 1]]]

SaveProfileInit ==
    /\ AcctInit
    /\ tempTokens = {}
    /\ users = [id \in UserIDs |->
                  IF id = "u1" THEN UserWithProfiles("u1", "a@x", 1) ELSE NoUser]

SaveProfile_rejects(user) == Len(user.profiles) > maximumProfilesAllowed

SaveProfile_Load(p) ==
    /\ pc[p] = "idle"
    /\ \E tokenId \in TokenIDs :
         LET c == AcctCall("SaveProfile", tokenId)
             got == GetUserByIDFrom(users, tokenId)
         IN  IF tokenId = ""
             THEN Done(p, Return(c, ErrorResp("InvalidArgument", "missing argument")))
             ELSE IF got.err
             THEN Done(p, Return(c, ErrorResp("Internal", "user not found")))
             ELSE Goto(p, "profile_save", c, got.user)
    /\ UNCHANGED <<now, users, tempTokens>>
    /\ SessionIdle

\* req.Profile is first read here
SaveProfile_Save(p) ==
    /\ pc[p] = "profile_save"
    /\ \E id \in SaveProfileIDs, alias \in Aliases :
         LET c == [call[p] EXCEPT !.id = id]
             user == local[p]
             updated == UpdateProfile(user, id, alias)
             saved == IF id = NewProfile THEN AddProfile(user, alias) ELSE updated.user
             upd == UpdateUserIn(users, saved)
         IN  IF id = NewProfile /\ SaveProfile_rejects(user)
             THEN /\ Done(p, ReturnLogged(c, ErrorResp("Internal", "reached profile limit"),
                                          "PROFILE_SAVED too many profiles added"))
                  /\ UNCHANGED users
             ELSE IF id # NewProfile /\ updated.err # ""
             THEN /\ Done(p, Return(c, ErrorResp("Internal", "profile not found")))
                  /\ UNCHANGED users
             ELSE /\ users' = upd.coll
                  /\ IF upd.err
                     THEN Done(p, Return(c, ErrorResp("Internal", "not found")))
                     ELSE Done(p, ReturnLogged(c, UserResp(upd.user), "PROFILE_SAVED"))
    /\ UNCHANGED <<now, tempTokens>>
    /\ SessionIdle

SaveProfileNext ==
    \E p \in Handlers :
        \/ SaveProfile_Load(p)
        \/ SaveProfile_Save(p)

SpecSaveProfile == SaveProfileInit /\ [][SaveProfileNext]_vars

\* C18: after any sequence of SaveProfile calls no stored user has more
\* profiles than maximumProfilesAllowed: a SaveProfile for a new profile that
\* would take the count above the limit fails with "reached profile limit"
\* and writes nothing
C18_ProfileLimit ==
    /\ \A id \in UserIDs :
         users[id] # NoUser => Len(users[id].profiles) <= maximumProfilesAllowed
    /\ (out.op = "SaveProfile" /\ out.resp.kind = "User" /\ out.id = NewProfile)
          => Len(out.resp.user.profiles) <= maximumProfilesAllowed

----------------------------------------------------------------------------
(* RemoveProfile *)

InitialProfiles == 3

RemoveProfileIDs == 1..(InitialProfiles + 1)

RemoveProfileInit ==
    /\ AcctInit
    /\ tempTokens = {}
    /\ users = [id \in UserIDs |->
                  IF id = "u1" THEN UserWithProfiles("u1", "a@x", InitialProfiles)
                  ELSE IF id = "u2" THEN UserWithProfiles("u2", "b@x", 1)
                  ELSE NoUser]

RemoveProfile_rejectsNever(user) == FALSE

RemoveProfile_rejects(user) == Len(user.profiles) = 1

RemoveProfile_Load(p) ==
    /\ pc[p] = "idle"
    /\ \E tokenId \in TokenIDs :
         LET c == AcctCall("RemoveProfile", tokenId)
             got == GetUserByIDFrom(users, tokenId)
         IN  IF tokenId = ""
             THEN Done(p, Return(c, ErrorResp("InvalidArgument", "missing argument")))
             ELSE IF got.err
             THEN Done(p, Return(c, ErrorResp("Internal", "user not found")))
             ELSE Goto(p, "profile_remove", c, got.user)
    /\ UNCHANGED <<now, users, tempTokens>>
    /\ SessionIdle

\* req.Profile.Id is first read here
RemoveProfile_Save(p) ==
    /\ pc[p] = "profile_remove"
    /\ \E id \in RemoveProfileIDs :
         LET c == [call[p] EXCEPT !.id = id]
             user == local[p]
             removed == RemoveProfile(user, id)
             upd == UpdateUserIn(users, removed.user)
         IN  IF RemoveProfile_rejects(user)
             THEN /\ Done(p, Return(c, ErrorResp("Internal", "can't delete last profile")))
                  /\ UNCHANGED users
             ELSE IF removed.err # ""
             THEN /\ Done(p, Return(c, ErrorResp("Internal", removed.err)))
                  /\ UNCHANGED users
             ELSE /\ users' = upd.coll
                  /\ IF upd.err
                     THEN Done(p, Return(c, ErrorResp("Internal", "not found")))
                     ELSE Done(p, ReturnLogged(c, UserResp(upd.user), "PROFILE_REMOVED"))
    /\ UNCHANGED <<now, tempTokens>>
    /\ SessionIdle

RemoveProfileNext ==
    \E p \in Handlers :
        \/ RemoveProfile_Load(p)
        \/ RemoveProfile_Save(p)

SpecRemoveProfile == RemoveProfileInit /\ [][RemoveProfileNext]_vars

\* C19: the profiles of every stored user are never empty: a RemoveProfile for
\* a user it loaded with one profile fails with "can't delete last profile"
\* and writes nothing, and two RemoveProfile calls that both loaded a user with
\* two profiles and remove different ones leave one profile stored
C19_ProfilesNonEmpty ==
    /\ [](\A id \in UserIDs : users[id] # NoUser => Len(users[id].profiles) >= 1)
    /\ [][\A p \in Handlers :
            (Returns(p, "profile_remove") /\ Len(local[p].profiles) = 1) =>
                /\ out'.resp = ErrorResp("Internal", "can't delete last profile")
                /\ users' = users]_vars

\* one of two calls that both loaded a user with two profiles has removed its
\* profile; the other is about to remove the profile that is left
C19_Witness ==
    /\ out.op = "RemoveProfile"
    /\ out.resp.kind = "User"
    /\ Len(users[out.tokenId].profiles) = 1
    /\ \E q \in Handlers :
         /\ pc[q] = "profile_remove"
         /\ local[q].id = out.tokenId
         /\ Len(local[q].profiles) = 2
         /\ \E i \in 1..2 : local[q].profiles[i].id = out.id

----------------------------------------------------------------------------
(* GetUser, DeleteAccount, ChangePassword, with GenerateTempToken *)

StatusResp(msg) == [kind |-> "ServiceStatus", msg |-> msg]

TokenResp(token) == [kind |-> "TempToken", token |-> token]

GeneratedTokenLifetime == 10

\* the user ids requests name; "" is a missing one
TargetIDs == {"", "u1", "u2"}

Purposes == {"password-reset", "contact-verification"}

NewPasswords == {"pw2", "weak"}

TokensInit ==
    /\ AcctInit
    /\ tempTokens = {}
    /\ users = [id \in UserIDs |->
                  IF id = "u1" THEN AcctUser("u1", "a@x", 1, {Contact("a@x", 1)})
                  ELSE IF id = "u2" THEN AcctUser("u2", "b@x", 1, {Contact("b@x", 1)})
                  ELSE NoUser]

\* GenerateTempToken with Expiration 0; the sweep of expired tokens it may
\* start removes nothing before the tokens expire
GenerateTempToken(p) ==
    /\ pc[p] = "idle"
    /\ \E userId \in TargetIDs \ {""}, purpose \in Purposes \cup {""} :
         LET c == [AcctCall("GenerateTempToken", "") EXCEPT
                     !.userId = userId, !.purpose = purpose]
             added == AddTempToken(tempTokens, userId, purpose, <<>>,
                                   GetExpirationTime(now, GeneratedTokenLifetime))
         IN  IF purpose = ""
             THEN /\ Done(p, Return(c, ErrorResp("InvalidArgument", "missing argument")))
                  /\ UNCHANGED tempTokens
             ELSE /\ Cardinality(GetTempTokenForUser(tempTokens, userId, purpose))
                       < MaxTempTokens
                  /\ tempTokens' = added
                  /\ Done(p, Return(c, TokenResp(NewTokenString(tempTokens, userId, purpose))))
    /\ UNCHANGED <<now, users>>
    /\ SessionIdle

\* req.Token.Id != req.UserId
NotAuthorizedNever(tokenId, userId) == FALSE

NotAuthorized(tokenId, userId) == tokenId # userId

GetUser(p) ==
    /\ pc[p] = "idle"
    /\ \E tokenId \in TokenIDs, userId \in TargetIDs :
         LET c == [AcctCall("GetUser", tokenId) EXCEPT !.userId = userId]
             target == IF userId = "" THEN tokenId ELSE userId
             got == GetUserByIDFrom(users, target)
         IN  IF tokenId = ""
             THEN Done(p, Return(c, ErrorResp("InvalidArgument", "missing argument")))
             ELSE IF NotAuthorized(tokenId, target)
             THEN Done(p, Return(c, ErrorResp("PermissionDenied", "not authorized")))
             ELSE IF got.err
             THEN Done(p, Return(c, ErrorResp("Internal", "not found")))
             ELSE Done(p, Return(c, UserResp(got.user)))
    /\ UNCHANGED <<now, users, tempTokens>>
    /\ SessionIdle

\* DeleteAccount up to GetUserByID
DeleteAccount_Load(p) ==
    /\ pc[p] = "idle"
    /\ \E tokenId \in TokenIDs, userId \in TargetIDs :
         LET c == [AcctCall("DeleteAccount", tokenId) EXCEPT !.userId = userId]
             got == GetUserByIDFrom(users, userId)
         IN  IF tokenId = "" \/ userId = ""
             THEN Done(p, Return(c, ErrorResp("InvalidArgument", "missing argument")))
             ELSE IF NotAuthorized(tokenId, userId)
             THEN Done(p, Return(c, ErrorResp("PermissionDenied", "not authorized")))
             ELSE IF got.err
             THEN Done(p, Return(c, ErrorResp("Internal", "not found")))
             ELSE Goto(p, "del_delete", c, NoUser)
    /\ UNCHANGED <<now, users, tempTokens>>
    /\ SessionIdle

DeleteAccount_Delete(p) ==
    /\ pc[p] = "del_delete"
    /\ LET c == call[p]
           deleted == DeleteUserFrom(users, c.userId)
       IN  /\ users' = deleted.coll
           /\ IF deleted.err
              THEN Done(p, Return(c, ErrorResp("Internal", "no user found with the given id")))
              ELSE Goto(p, "del_purge", c, NoUser)
    /\ UNCHANGED <<now, tempTokens>>
    /\ SessionIdle

\* the temp-tokens DeleteAccount leaves
DeleteAccount_tokensReset(coll, tokenId) ==
    DeleteAllTempTokenForUser(coll, tokenId, "password-reset")

DeleteAccount_tokens(coll, tokenId) == DeleteAllTempTokenForUser(coll, tokenId, "")

DeleteAccount_Purge(p) ==
    /\ pc[p] = "del_purge"
    /\ tempTokens' = DeleteAccount_tokens(tempTokens, call[p].tokenId)
    /\ Done(p, ReturnLogged(call[p], StatusResp("user deleted"), "ACCOUNT_DELETED"))
    /\ UNCHANGED <<now, users>>
    /\ SessionIdle

\* ChangePassword up to the comparison with the stored hash
ChangePassword_Load(p) ==
    /\ pc[p] = "idle"
    /\ \E tokenId \in TokenIDs :
         LET c == AcctCall("ChangePassword", tokenId)
             got == GetUserByIDFrom(users, tokenId)
         IN  IF tokenId = ""
             THEN Done(p, Return(c, ErrorResp("InvalidArgument", "missing argument")))
             ELSE \E newPassword \in NewPasswords :
                    IF ~CheckPasswordFormat(newPassword)
                    THEN Done(p, Return(c, ErrorResp("InvalidArgument", "new password too weak")))
                    ELSE IF got.err
                    THEN Done(p, Return(c, ErrorResp("InvalidArgument",
                                                     "invalid user and/or password")))
                    ELSE \E oldPassword \in Passwords :
                           IF ~ComparePasswordWithHash(got.user.password, oldPassword)
                           THEN Done(p, ReturnLogged(c,
                                          ErrorResp("InvalidArgument",
                                                    "invalid user and/or password"),
                                          "AUTH_WRONG_PASSWORD"))
                           ELSE Goto(p, "pw_update", [c EXCEPT !.password = newPassword],
                                     NoUser)
    /\ UNCHANGED <<now, users, tempTokens>>
    /\ SessionIdle

\* UpdateOne with $set of account.password: no error when no document matches
UpdateUserPassword(coll, userID, newPassword) ==
    IF GetUserByIDFrom(coll, userID).err
    THEN coll
    ELSE [coll EXCEPT ![userID].password = newPassword]

ChangePassword_Update(p) ==
    /\ pc[p] = "pw_update"
    /\ users' = UpdateUserPassword(users, call[p].tokenId, HashPassword(call[p].password))
    /\ Goto(p, "pw_purge", call[p], NoUser)
    /\ UNCHANGED <<now, tempTokens>>
    /\ SessionIdle

\* the temp-tokens ChangePassword leaves
ChangePassword_tokensAll(coll, tokenId) == DeleteAllTempTokenForUser(coll, tokenId, "")

ChangePassword_tokens(coll, tokenId) ==
    DeleteAllTempTokenForUser(coll, tokenId, "password-reset")

ChangePassword_Purge(p) ==
    /\ pc[p] = "pw_purge"
    /\ tempTokens' = ChangePassword_tokens(tempTokens, call[p].tokenId)
    /\ Done(p, ReturnLogged(call[p], StatusResp("password changed"), "PASSWORD_CHANGED"))
    /\ UNCHANGED <<now, users>>
    /\ SessionIdle

TokensNext ==
    \E p \in Handlers :
        \/ GenerateTempToken(p)
        \/ GetUser(p)
        \/ DeleteAccount_Load(p)
        \/ DeleteAccount_Delete(p)
        \/ DeleteAccount_Purge(p)
        \/ ChangePassword_Load(p)
        \/ ChangePassword_Update(p)
        \/ ChangePassword_Purge(p)

SpecTokens == TokensInit /\ [][TokensNext]_vars

NotAuthorizedResp == ErrorResp("PermissionDenied", "not authorized")

\* C14: GetUser and DeleteAccount with a token whose id is not the target
\* user id return PermissionDenied "not authorized", and the call leaves the
\* users and the temp-tokens as they are
C14_NotAuthorized ==
    /\ []((/\ out.op \in {"GetUser", "DeleteAccount"}
           /\ out.tokenId # ""
           /\ out.userId # ""
           /\ out.userId # out.tokenId) => out.resp = NotAuthorizedResp)
    /\ [][(out'.op \in {"GetUser", "DeleteAccount"} /\ out'.resp = NotAuthorizedResp)
            => UNCHANGED <<users, tempTokens>>]_vars

\* a refused DeleteAccount for a stored user that has temp-tokens
C14_Witness ==
    /\ out.op = "DeleteAccount"
    /\ out.resp = NotAuthorizedResp
    /\ out.tokenId = "u2"
    /\ users[out.userId] # NoUser
    /\ GetTempTokenForUser(tempTokens, out.userId, "") # {}

OtherTokens(coll, userID) ==
    {t \in coll : ~(t.userId = userID /\ t.purpose = "password-reset")}

----------------------------------------------------------------------------
(* UseUnsubscribeToken, with UpdateContactPreferences *)

\* ValidateTempToken: the token is stored, not expired, of an allowed purpose
ValidateTempToken(coll, token, purposes, t) ==
    LET hits == {x \in coll : x.token = token}
        found == CHOOSE x \in hits : TRUE
    IN  IF hits = {} THEN [err |-> "wrong token", userId |-> ""]
        ELSE IF found.expiration < t THEN [err |-> "token expired", userId |-> ""]
        ELSE IF found.purpose \notin purposes
        THEN [err |-> "wrong token purpose", userId |-> ""]
        ELSE [err |-> "", userId |-> found.userId]

\* FindOneAndUpdate with $set of contactPreferences
UpdateContactPreferencesIn(coll, userID, prefs) ==
    IF GetUserByIDFrom(coll, userID).err
    THEN [err |-> TRUE, coll |-> coll, user |-> NoUser]
    ELSE [err |-> FALSE, coll |-> [coll EXCEPT ![userID].contactPreferences = prefs],
          user |-> [coll[userID] EXCEPT !.contactPreferences = prefs]]

StoredToken(userID, purpose, expiration) ==
    [token |-> <<userID, purpose, 1>>, userId |-> userID, purpose |-> purpose,
     info |-> <<>>, expiration |-> expiration]

\* an unsubscribe token that expires when the clock passes TokenExpiryInterval,
\* one that does not expire, and a token of another purpose
UnsubscribeInit ==
    /\ AcctInit
    /\ users = [id \in UserIDs |->
                  IF id = "u1"
                  THEN AcctUser("u1", "a@x", 1, {Contact("a@x", 1), Contact("c@x", 1)})
                  ELSE IF id = "u2"
                  THEN AcctUser("u2", "b@x", 1, {Contact("b@x", 1)})
                  ELSE NoUser]
    /\ tempTokens = {StoredToken("u1", "unsubscribe-newsletter", MaxTime + 1),
                     StoredToken("u2", "unsubscribe-newsletter", TokenExpiryInterval),
                     StoredToken("u1", "password-reset", MaxTime + 1)}

\* the token strings clients present: the stored ones, an unknown one, none
TokenStrings ==
    {<<"u1", "unsubscribe-newsletter", 1>>, <<"u2", "unsubscribe-newsletter", 1>>,
     <<"u1", "password-reset", 1>>, <<"u1", "unsubscribe-newsletter", 2>>, <<>>}

\* the contact preferences clients send
PreferenceInputs ==
    [subscribedToNewsletter : BOOLEAN,
     sendNewsletterTo : {<<>>, <<NewContactID("c@x")>>}]

UpdateContactPreferences(p) ==
    /\ pc[p] = "idle"
    /\ \E tokenId \in TokenIDs :
         LET c == AcctCall("UpdateContactPreferences", tokenId)
         IN  IF tokenId = ""
             THEN /\ Done(p, Return(c, ErrorResp("InvalidArgument", "missing argument")))
                  /\ UNCHANGED users
             ELSE \E prefs \in PreferenceInputs :
                    LET upd == UpdateContactPreferencesIn(users, tokenId, prefs)
                    IN  /\ users' = upd.coll
                        /\ IF upd.err
                           THEN Done(p, Return(c, ErrorResp("Internal", "not found")))
                           ELSE Done(p, Return(c, UserResp(upd.user)))
    /\ UNCHANGED <<now, tempTokens>>
    /\ SessionIdle

\* UseUnsubscribeToken up to GetUserByID
UseUnsubscribeToken_Load(p) ==
    /\ pc[p] = "idle"
    /\ \E token \in TokenStrings :
         LET c == [AcctCall("UseUnsubscribeToken", "") EXCEPT !.id = token]
             tokenInfos == ValidateTempToken(tempTokens, token,
                                             {"unsubscribe-newsletter"}, now)
             got == GetUserByIDFrom(users, tokenInfos.userId)
         IN  IF token = <<>>
             THEN Done(p, Return(c, ErrorResp("InvalidArgument", "missing argument")))
             ELSE IF tokenInfos.err # ""
             THEN Done(p, Return(c, ErrorResp("InvalidArgument", tokenInfos.err)))
             ELSE IF got.err
             THEN Done(p, Return(c, ErrorResp("InvalidArgument", "not found")))
             ELSE Goto(p, "unsub_write", [c EXCEPT !.userId = tokenInfos.userId], got.user)
    /\ UNCHANGED <<now, users, tempTokens>>
    /\ SessionIdle

\* the contact preferences UseUnsubscribeToken writes
UseUnsubscribeToken_prefs(user) ==
    [user.contactPreferences EXCEPT !.subscribedToNewsletter = FALSE]

UseUnsubscribeToken_Write(p) ==
    /\ pc[p] = "unsub_write"
    /\ LET upd == UpdateContactPreferencesIn(users, local[p].id,
                                             UseUnsubscribeToken_prefs(local[p]))
       IN  /\ users' = upd.coll
           /\ IF upd.err
              THEN Done(p, Return(call[p], ErrorResp("Internal", "not found")))
              ELSE Done(p, Return(call[p], StatusResp("unsubscribed")))
    /\ UNCHANGED <<now, tempTokens>>
    /\ SessionIdle

UnsubscribeNext ==
    \/ Tick
    \/ \E p \in Handlers :
        \/ UpdateContactPreferences(p)
        \/ UseUnsubscribeToken_Load(p)
        \/ UseUnsubscribeToken_Write(p)

SpecUnsubscribe == UnsubscribeInit /\ [][UnsubscribeNext]_vars

\* C20: a UseUnsubscribeToken with a stored, unexpired unsubscribe-newsletter
\* token sets subscribedToNewsletter of the token's user to false and leaves
\* the other contact preferences at their latest stored value, also when an
\* UpdateContactPreferences for the user ran between its read and its write;
\* with a missing, expired or other-purpose token it returns an error and
\* changes nothing
C20_UnsubscribeKeepsPreferences ==
    /\ [][\A p \in Handlers :
            (Returns(p, "unsub_write") /\ out'.resp = StatusResp("unsubscribed")) =>
                users'[out'.userId].contactPreferences =
                    [users[out'.userId].contactPreferences
                        EXCEPT !.subscribedToNewsletter = FALSE]]_vars
    /\ [][out'.op = "UseUnsubscribeToken" =>
            \/ out'.resp = StatusResp("unsubscribed")
            \/ out'.resp.kind = "error" /\ UNCHANGED <<users, tempTokens>>]_vars
    /\ [][\A p \in Handlers :
            (pc[p] = "idle" /\ pc'[p] = "unsub_write") =>
                \E t \in tempTokens :
                    /\ t.token = call'[p].id
                    /\ t.purpose = "unsubscribe-newsletter"
                    /\ t.expiration >= now
                    /\ t.userId = call'[p].userId]_vars

----------------------------------------------------------------------------
(* The user store's retention operations: UpdateMarkedForDeletionTime,      *)
(* UpdateLoginTime, FindUsersMarkedForDeletion, FindInactiveUsers.  A       *)
(* document keeps the nesting of the stored one, so that a filter names a   *)
(* field by its path; every call on the collection is one atomic step.      *)

StoredUser(id, roles, confirmedAt, createdAt, lastLogin, lastTokenRefresh) ==
    [id |-> id,
     roles |-> roles,
     account |-> [accountConfirmedAt |-> confirmedAt],
     contactPreferences |-> [receiveWeeklyMessageDayOfWeek |-> 0],
     timestamps |-> [createdAt |-> createdAt,
                     lastLogin |-> lastLogin,
                     lastTokenRefresh |-> lastTokenRefresh,
                     reminderToConfirmSentAt |-> 0,
                     markedForDeletion |-> 0]]

\* the value a filter's dotted path names in a document, if there is one
RECURSIVE Field(_, _)
Field(doc, path) ==
    IF path = <<>> THEN [found |-> TRUE, value |-> doc]
    ELSE IF Head(path) \in DOMAIN doc THEN Field(doc[Head(path)], Tail(path))
    ELSE [found |-> FALSE]

\* the query operators on a field: a comparison matches no missing field
Gt(doc, path, x) == LET f == Field(doc, path) IN f.found /\ f.value > x
Lt(doc, path, x) == LET f == Field(doc, path) IN f.found /\ f.value < x
Eq(doc, path, x) == LET f == Field(doc, path) IN f.found /\ f.value = x
\* $nin on an array field: no element is in the list, or the field is missing
Nin(doc, path, list) == LET f == Field(doc, path) IN ~f.found \/ f.value \cap list = {}

\* Collection.UpdateOne with a filter that names the _id
UpdateOne(coll, id, Matches(_), Set(_)) ==
    IF id \in DOMAIN coll /\ coll[id] # NoUser /\ Matches(coll[id])
    THEN [coll |-> [coll EXCEPT ![id] = Set(@)], MatchedCount |-> 1]
    ELSE [coll |-> coll, MatchedCount |-> 0]

\* Collection.Find: the ids of the documents the filter matches
Find(coll, Matches(_)) == {id \in DOMAIN coll : coll[id] # NoUser /\ Matches(coll[id])}

\* a call of a store method, with what it returned
StoreCall(op, id) ==
    [op |-> op, id |-> id, reset |-> FALSE, dT |-> 0, at |-> 0, was |-> FALSE, ok |-> FALSE,
     found |-> {}, count |-> 0]

\* a variant of the reset=false filter that matches marked users too
UpdateMarkedForDeletionTime_matchesAny(user) == TRUE

\* the second clause of the reset=false filter
UpdateMarkedForDeletionTime_matches(user) ==
    ~Gt(user, <<"timestamps", "markedForDeletion">>, 0)

UpdateMarkedForDeletionTimeIn(coll, id, dT2, reset, t) ==
    LET res == IF reset
               THEN UpdateOne(coll, id, LAMBDA u : TRUE,
                              LAMBDA u : [u EXCEPT !.timestamps.markedForDeletion = 0])
               ELSE UpdateOne(coll, id, UpdateMarkedForDeletionTime_matches,
                              LAMBDA u : [u EXCEPT !.timestamps.markedForDeletion = t + dT2])
    IN  [coll |-> res.coll, ok |-> res.MatchedCount > 0]

\* the grace periods the sweeper passes
Deltas == {1, 2}

\* the ids callers pass: a participant, a marked participant, no stored user
MarkIDs == {"u1", "u3", "u4"}
LoginIDs == {"u3", "u4"}

StoreReturns(c) ==
    /\ out' = c
    /\ UNCHANGED <<pc, call, local, tempTokens>>
    /\ SessionIdle

UpdateMarkedForDeletionTime_Call(p) ==
    /\ pc[p] = "idle"
    /\ \E id \in MarkIDs, dT2 \in Deltas, reset \in BOOLEAN :
         LET res == UpdateMarkedForDeletionTimeIn(users, id, dT2, reset, now)
         IN  /\ users' = res.coll
             /\ StoreReturns([StoreCall("UpdateMarkedForDeletionTime", id)
                          EXCEPT !.reset = reset, !.dT = dT2, !.ok = res.ok])
    /\ UNCHANGED now

\* the reset argument UpdateLoginTime passes, and a variant
UpdateLoginTime_resetNot == FALSE
UpdateLoginTime_reset == TRUE

\* UpdateLoginTime up to its first UpdateOne
UpdateLoginTime_Set(p) ==
    /\ pc[p] = "idle"
    /\ \E id \in LoginIDs :
         LET res == UpdateOne(users, id, LAMBDA u : TRUE,
                              LAMBDA u : [u EXCEPT !.timestamps.lastLogin = now])
             was == users[id] # NoUser /\ users[id].timestamps.markedForDeletion > 0
         IN  /\ users' = res.coll
             /\ Goto(p, "login_reset",
                     [StoreCall("UpdateLoginTime", id) EXCEPT !.at = now, !.was = was],
                     NoUser)
    /\ UNCHANGED <<now, tempTokens>>
    /\ SessionIdle

UpdateLoginTime_Reset(p) ==
    /\ pc[p] = "login_reset"
    /\ LET res == UpdateMarkedForDeletionTimeIn(users, call[p].id, 0,
                                                UpdateLoginTime_reset, now)
       IN  /\ users' = res.coll
           /\ Done(p, [call[p] EXCEPT !.ok = TRUE])
    /\ UNCHANGED <<now, tempTokens>>
    /\ SessionIdle

\* the field FindUsersMarkedForDeletion's filter names
FindUsersMarkedForDeletion_path == <<"timestamps", "timestamps", "markedForDeletion">>

FindUsersMarkedForDeletion(p) ==
    /\ pc[p] = "idle"
    /\ StoreReturns([StoreCall("FindUsersMarkedForDeletion", "")
                       EXCEPT !.found = Find(users, LAMBDA u :
                                  /\ Gt(u, FindUsersMarkedForDeletion_path, 0)
                                  /\ Lt(u, FindUsersMarkedForDeletion_path, now))])
    /\ UNCHANGED <<now, users>>

Staff == {"SERVICE_ACCOUNT", "RESEARCHER", "ADMIN"}

\* a variant of the filter without its clause on the roles
FindInactiveUsers_matchesAnyRole(user, dT1, t) ==
    /\ Lt(user, <<"timestamps", "lastLogin">>, t - dT1)
    /\ Lt(user, <<"timestamps", "lastTokenRefresh">>, t - dT1)
    /\ ~Gt(user, <<"timestamps", "markedForDeletion">>, 0)

FindInactiveUsers_matches(user, dT1, t) ==
    /\ Nin(user, <<"roles">>, Staff)
    /\ Lt(user, <<"timestamps", "lastLogin">>, t - dT1)
    /\ Lt(user, <<"timestamps", "lastTokenRefresh">>, t - dT1)
    /\ ~Gt(user, <<"timestamps", "markedForDeletion">>, 0)

\* the inactivity thresholds the sweeper passes
Thresholds == {0, 1}

FindInactiveUsers(p) ==
    /\ pc[p] = "idle"
    /\ \E dT1 \in Thresholds :
         StoreReturns([StoreCall("FindInactiveUsers", "")
                         EXCEPT !.dT = dT1,
                                !.found = Find(users, LAMBDA u :
                                              FindInactiveUsers_matches(u, dT1, now))])
    /\ UNCHANGED <<now, users>>

\* a participant, a participant who is also staff, and a participant marked
\* for deletion at time 1 or not at all; u1 refreshed a token at time 0 or 1
RetentionInit ==
    /\ AcctInit
    /\ tempTokens = {}
    /\ \E refreshed \in {0, 1}, marked \in {0, 1} :
         users = [id \in UserIDs |->
                    IF id = "u1"
                    THEN StoredUser("u1", {"PARTICIPANT"}, 1, 0, 0, refreshed)
                    ELSE IF id = "u2"
                    THEN StoredUser("u2", {"PARTICIPANT", "ADMIN"}, 1, 0, 0, 0)
                    ELSE IF id = "u3"
                    THEN [StoredUser("u3", {"PARTICIPANT"}, 1, 0, 0, 0)
                             EXCEPT !.timestamps.markedForDeletion = marked]
                    ELSE NoUser]

RetentionNext ==
    \/ Tick
    \/ \E p \in Handlers :
        \/ UpdateMarkedForDeletionTime_Call(p)
        \/ UpdateLoginTime_Set(p)
        \/ UpdateLoginTime_Reset(p)
        \/ FindUsersMarkedForDeletion(p)
        \/ FindInactiveUsers(p)

SpecRetention == RetentionInit /\ [][RetentionNext]_vars

MarkedForDeletion(user) == user.timestamps.markedForDeletion

\* C21: UpdateMarkedForDeletionTime with reset=false sets markedForDeletion to
\* now+delta and returns true only when the stored value is not > 0; when a
\* value > 0 is stored it changes nothing and returns false.  With reset=true
\* it sets the value to 0 and returns true exactly when the user exists.  No
\* other user is changed.
C21_MarkIdempotent ==
    [][out'.op = "UpdateMarkedForDeletionTime" =>
        LET before == users[out'.id]
            after  == users'[out'.id]
        IN  /\ \A o \in UserIDs \ {out'.id} : users'[o] = users[o]
            /\ IF before = NoUser
               THEN ~out'.ok /\ after = NoUser
               ELSE IF out'.reset
               THEN out'.ok /\ after = [before EXCEPT !.timestamps.markedForDeletion = 0]
               ELSE IF MarkedForDeletion(before) > 0
               THEN ~out'.ok /\ after = before
               ELSE /\ out'.ok
                    /\ after = [before EXCEPT !.timestamps.markedForDeletion =
                                                  now + out'.dT]]_vars

\* a reset=false call on a marked user returned false; a call that had applied
\* would have stored another value
C21_Witness ==
    /\ out.op = "UpdateMarkedForDeletionTime"
    /\ ~out.reset /\ ~out.ok
    /\ users[out.id] # NoUser
    /\ MarkedForDeletion(users[out.id]) > 0
    /\ MarkedForDeletion(users[out.id]) # now + out.dT

\* C22: when UpdateLoginTime returns success for a stored user, the user's
\* markedForDeletion is 0 and lastLogin is a time of the call: not before the
\* time the call read and not after the time of the return
C22_LoginClearsMark ==
    [][\A p \in Handlers :
         (Returns(p, "login_reset") /\ out'.ok /\ users'[out'.id] # NoUser) =>
             /\ MarkedForDeletion(users'[out'.id]) = 0
             /\ users'[out'.id].timestamps.lastLogin \in out'.at..now']_vars

\* a login that found the user marked for deletion returned
C22_Witness ==
    /\ out.op = "UpdateLoginTime" /\ out.ok /\ out.was
    /\ users[out.id] # NoUser
    /\ MarkedForDeletion(users[out.id]) = 0
    /\ users[out.id].timestamps.lastLogin = out.at

\* C24: FindUsersMarkedForDeletion returns exactly the users with
\* 0 < markedForDeletion < now
C24_FindMarked ==
    out.op = "FindUsersMarkedForDeletion" =>
        out.found = {id \in UserIDs : /\ users[id] # NoUser
                                      /\ MarkedForDeletion(users[id]) > 0
                                      /\ MarkedForDeletion(users[id]) < now}

\* C25: FindInactiveUsers(dT) returns a user only if none of its roles is
\* SERVICE_ACCOUNT, RESEARCHER or ADMIN, lastLogin < now-dT,
\* lastTokenRefresh < now-dT and markedForDeletion is not > 0
C25_InactiveOnly ==
    out.op = "FindInactiveUsers" =>
        \A id \in out.found :
            /\ users[id] # NoUser
            /\ users[id].roles \cap Staff = {}
            /\ users[id].timestamps.lastLogin < now - out.dT
            /\ users[id].timestamps.lastTokenRefresh < now - out.dT
            /\ ~(MarkedForDeletion(users[id]) > 0)

\* a search returned a participant and passed over a staff account that has
\* neither logged in nor refreshed a token since, and is not marked
C25_Witness ==
    /\ out.op = "FindInactiveUsers"
    /\ "u1" \in out.found
    /\ "u2" \notin out.found
    /\ users["u2"].timestamps.lastLogin < now - out.dT
    /\ users["u2"].timestamps.lastTokenRefresh < now - out.dT
    /\ MarkedForDeletion(users["u2"]) = 0

----------------------------------------------------------------------------
(* Unverified accounts and the streaming sweeps: DeleteUnverfiedUsers,      *)
(* SendReminderToConfirmAccountLoop, PerfomActionForUsers.  A sweep's       *)
(* cursor holds the documents its Find matched (one batch: the collection   *)
(* is smaller than the batch size of 32); of each row the model keeps the   *)
(* id.  The callback is the caller's: it succeeds or fails, and a           *)
(* successful reminder callback has sent one reminder.                      *)

MaxReminders == 2

\* a variant that also matches accounts with accountConfirmedAt < 0
DeleteUnverfiedUsers_matchesBelowOne(user, createdBefore) ==
    /\ Lt(user, <<"account", "accountConfirmedAt">>, 1)
    /\ Lt(user, <<"timestamps", "createdAt">>, createdBefore)

DeleteUnverfiedUsers_matches(user, createdBefore) ==
    /\ Eq(user, <<"account", "accountConfirmedAt">>, 0)
    /\ Lt(user, <<"timestamps", "createdAt">>, createdBefore)

\* Collection.DeleteMany
DeleteMany(coll, Matches(_)) ==
    LET del == Find(coll, Matches)
    IN  [coll |-> [id \in DOMAIN coll |-> IF id \in del THEN NoUser ELSE coll[id]],
         DeletedCount |-> Cardinality(del)]

\* the createdBefore times the sweeper passes
CreatedBefore == {1, 2}

DeleteUnverfiedUsers(p) ==
    /\ pc[p] = "idle"
    /\ \E createdBefore \in CreatedBefore :
         LET res == DeleteMany(users, LAMBDA u : DeleteUnverfiedUsers_matches(u, createdBefore))
         IN  /\ users' = res.coll
             /\ StoreReturns([StoreCall("DeleteUnverfiedUsers", "")
                                EXCEPT !.at = createdBefore, !.count = res.DeletedCount])
    /\ UNCHANGED now

\* a sweep in progress, with what was true of it
SweepCall(op) ==
    [op |-> op, found |-> 0, cancelled |-> FALSE, failed |-> FALSE, left |-> 0, err |-> ""]

\* the callback or the update of a row failed
RowFailed(c) == [c EXCEPT !.failed = TRUE]

\* the order in which a cursor yields the documents
NaturalOrder == <<"u1", "u2", "u3", "u4">>

Rows(ids) == SelectSeq(NaturalOrder, LAMBDA id : id \in ids)

ReminderLabels == {"remind_next", "remind_cbk", "remind_upd"}
ActionLabels == {"action_next", "action_cbk"}

\* the retention timer runs its sweeps one after the other, in one process;
\* the other processes serve the requests that stream users
TimerService == "h1"
Streamers == Handlers \ {TimerService}

SweepReturns(p, err) ==
    Done(p, [call[p] EXCEPT !.err = err, !.left = Len(local[p])])

\* ctx.Err() at the head of the loop body, and a variant that never looks
Sweep_ctxErrNever(c) == FALSE
Sweep_ctxErr(c) == c.cancelled

\* cur.Next with the check of ctx.Err(): the next row, or the return
Sweep_Next(p, cbk) ==
    /\ IF Len(local[p]) = 0
       THEN SweepReturns(p, "")
       ELSE IF Sweep_ctxErr(call[p])
       THEN SweepReturns(p, "context canceled")
       ELSE Goto(p, cbk, call[p], local[p])
    /\ UNCHANGED <<now, users, tempTokens>>
    /\ SessionIdle

\* a variant of the filter without its clause on reminderToConfirmSentAt
SendReminderToConfirmAccountLoop_matchesSent(user, createdBefore) ==
    /\ Lt(user, <<"account", "accountConfirmedAt">>, 1)
    /\ Lt(user, <<"timestamps", "createdAt">>, createdBefore)

SendReminderToConfirmAccountLoop_matches(user, createdBefore) ==
    /\ Lt(user, <<"account", "accountConfirmedAt">>, 1)
    /\ Lt(user, <<"timestamps", "reminderToConfirmSentAt">>, 1)
    /\ Lt(user, <<"timestamps", "createdAt">>, createdBefore)

SendReminderToConfirmAccountLoop_Find(p) ==
    /\ pc[p] = "idle"
    /\ \E createdBefore \in CreatedBefore :
         LET found == Find(users, LAMBDA u :
                              SendReminderToConfirmAccountLoop_matches(u, createdBefore))
         IN  Goto(p, "remind_next",
                  [SweepCall("SendReminderToConfirmAccountLoop")
                     EXCEPT !.found = Cardinality(found)],
                  Rows(found))
    /\ UNCHANGED <<now, users, tempTokens>>
    /\ SessionIdle

SendReminderToConfirmAccountLoop_Next(p) ==
    /\ pc[p] = "remind_next"
    /\ Sweep_Next(p, "remind_cbk")

\* what the loop does when the callback failed, and a variant that returns
SendReminderToConfirmAccountLoop_returnsError == TRUE
SendReminderToConfirmAccountLoop_returns == FALSE

\* the reminder callback for the row
SendReminderToConfirmAccountLoop_Callback(p) ==
    /\ pc[p] = "remind_cbk"
    /\ LET id == Head(local[p])
       IN  \/ /\ reminders[id] < MaxReminders
              /\ reminders' = [reminders EXCEPT ![id] = @ + 1]
              /\ Goto(p, "remind_upd", call[p], local[p])
           \/ /\ UNCHANGED reminders
              /\ IF SendReminderToConfirmAccountLoop_returns
                 THEN Done(p, [RowFailed(call[p])
                                 EXCEPT !.err = "callback", !.left = Len(local[p]) - 1])
                 ELSE Goto(p, "remind_next", RowFailed(call[p]), Tail(local[p]))
    /\ UNCHANGED <<now, users, tempTokens, db, nextRT, exchanged, revoked,
                   lastTempTokenDeleteTime, cleanups>>

\* UpdateReminderToConfirmSentAtTime for the row: it applies, or the store fails
SendReminderToConfirmAccountLoop_Update(p) ==
    /\ pc[p] = "remind_upd"
    /\ LET id == Head(local[p])
       IN  \/ /\ users' = UpdateOne(users, id, LAMBDA u : TRUE,
                              LAMBDA u : [u EXCEPT !.timestamps.reminderToConfirmSentAt = now]).coll
              /\ Goto(p, "remind_next", call[p], Tail(local[p]))
           \/ /\ UNCHANGED users
              /\ Goto(p, "remind_next", RowFailed(call[p]), Tail(local[p]))
    /\ UNCHANGED <<now, tempTokens>>
    /\ SessionIdle

PerfomActionForUsers_matches(user, filters) ==
    /\ filters.OnlyConfirmed => Gt(user, <<"account", "accountConfirmedAt">>, 0)
    /\ filters.ReminderWeekDay > -1 =>
          Eq(user, <<"contactPreferences", "receiveWeeklyMessageDayOfWeek">>,
             filters.ReminderWeekDay)

\* the filters callers pass
UserFilter == [OnlyConfirmed : BOOLEAN, ReminderWeekDay : {-1, 1}]

PerfomActionForUsers_Find(p) ==
    /\ pc[p] = "idle"
    /\ \E filters \in UserFilter :
         LET found == Find(users, LAMBDA u : PerfomActionForUsers_matches(u, filters))
         IN  Goto(p, "action_next",
                  [SweepCall("PerfomActionForUsers") EXCEPT !.found = Cardinality(found)],
                  Rows(found))
    /\ UNCHANGED <<now, users, tempTokens>>
    /\ SessionIdle

PerfomActionForUsers_Next(p) ==
    /\ pc[p] = "action_next"
    /\ Sweep_Next(p, "action_cbk")

\* the callback for the row; its error ends the sweep
PerfomActionForUsers_Callback(p) ==
    /\ pc[p] = "action_cbk"
    /\ \/ Goto(p, "action_next", call[p], Tail(local[p]))
       \/ Done(p, [RowFailed(call[p])
                     EXCEPT !.err = "callback", !.left = Len(local[p]) - 1])
    /\ UNCHANGED <<now, users, tempTokens>>
    /\ SessionIdle

\* the caller cancels the context of a running sweep
Cancel(p) ==
    /\ pc[p] \in ReminderLabels \cup ActionLabels
    /\ ~call[p].cancelled
    /\ Goto(p, pc[p], [call[p] EXCEPT !.cancelled = TRUE], local[p])
    /\ UNCHANGED <<now, users, tempTokens>>
    /\ SessionIdle

\* an unverified account created at time 0, an account whose id was changed,
\* created at time 1, and a confirmed account created at time 0; u1 and u3
\* receive the weekly message on day 1
SweepInit ==
    /\ db = NoUser
    /\ now = 1
    /\ nextRT = 0
    /\ pc = [p \in Handlers |-> "idle"]
    /\ call = [p \in Handlers |-> NoCall]
    /\ local = [p \in Handlers |-> <<>>]
    /\ out = NoCall
    /\ exchanged = {}
    /\ revoked = {}
    /\ lastTempTokenDeleteTime = 0
    /\ cleanups = <<>>
    /\ tempTokens = {}
    /\ reminders = [id \in UserIDs |-> 0]
    /\ users = [id \in UserIDs |->
                  LET confirmedAt == IF id = "u2" THEN -1 ELSE IF id = "u3" THEN 1 ELSE 0
                      createdAt   == IF id = "u2" THEN 1 ELSE 0
                      weekDay     == IF id \in {"u1", "u3"} THEN 1 ELSE 0
                  IN  IF id = "u4" THEN NoUser
                      ELSE [StoredUser(id, {"PARTICIPANT"}, confirmedAt, createdAt, 0, 0)
                              EXCEPT !.contactPreferences.receiveWeeklyMessageDayOfWeek =
                                         weekDay]]

SweepNext ==
    \/ Tick
    \/ SendReminderToConfirmAccountLoop_Find(TimerService)
    \/ SendReminderToConfirmAccountLoop_Next(TimerService)
    \/ SendReminderToConfirmAccountLoop_Callback(TimerService)
    \/ SendReminderToConfirmAccountLoop_Update(TimerService)
    \/ \E p \in Streamers :
        \/ PerfomActionForUsers_Find(p)
        \/ PerfomActionForUsers_Next(p)
        \/ PerfomActionForUsers_Callback(p)
    \/ \E p \in Handlers : Cancel(p)

SpecSweep == SweepInit /\ [][SweepNext]_vars

\* the unverified accounts a store can hold: deleted, or any confirmation
\* state with any creation time
UnverifiedInit ==
    /\ AcctInit
    /\ tempTokens = {}
    /\ \E f \in [{"u1", "u2"} -> {<<>>} \cup ({-1, 0, 1} \X (0..MaxTime))] :
         users = [id \in UserIDs |->
                    IF id \in {"u1", "u2"} /\ f[id] # <<>>
                    THEN StoredUser(id, {"PARTICIPANT"}, f[id][1], f[id][2], 0, 0)
                    ELSE NoUser]

UnverifiedNext == \E p \in Handlers : DeleteUnverfiedUsers(p)

SpecUnverified == UnverifiedInit /\ [][UnverifiedNext]_vars

ConfirmedAt(user) == user.account.accountConfirmedAt
CreatedAt(user) == user.timestamps.createdAt

\* C23: DeleteUnverfiedUsers(createdBefore) deletes exactly the users with
\* accountConfirmedAt = 0 and createdAt < createdBefore and returns their
\* number; every other user is left as it is
C23_DeletesUnverified ==
    [][out'.op = "DeleteUnverfiedUsers" =>
        LET del == {id \in UserIDs : /\ users[id] # NoUser
                                     /\ ConfirmedAt(users[id]) = 0
                                     /\ CreatedAt(users[id]) < out'.at}
        IN  /\ users' = [id \in UserIDs |-> IF id \in del THEN NoUser ELSE users[id]]
            /\ out'.count = Cardinality(del)]_vars

\* a call deleted a user and left an older account with accountConfirmedAt < 0
C23_Witness ==
    /\ out.op = "DeleteUnverfiedUsers"
    /\ out.count = 1
    /\ \E id \in UserIDs : /\ users[id] # NoUser
                           /\ ConfirmedAt(users[id]) < 0
                           /\ CreatedAt(users[id]) < out.at

SentAt(user) == user.timestamps.reminderToConfirmSentAt

\* C26: in SendReminderToConfirmAccountLoop a failure of the callback or of
\* the update for one row never ends the sweep: the loop goes on with the
\* rows after it, and it returns either without error after the last row or
\* with the error of its cancelled context
C26_FailureSkipped ==
    /\ [](out.op = "SendReminderToConfirmAccountLoop" =>
            \/ out.err = "" /\ out.left = 0
            \/ out.err = "context canceled" /\ out.cancelled)
    /\ [][\A p \in Handlers :
            (pc[p] \in {"remind_cbk", "remind_upd"} /\ pc'[p] # pc[p]) =>
                /\ pc'[p] \in {"remind_upd", "remind_next"}
                /\ pc'[p] = "remind_upd" => local'[p] = local[p]
                /\ pc'[p] = "remind_next" => local'[p] = Tail(local[p])]_vars

\* a sweep over u1 and u2 returned without error: the callback for u1 had
\* failed, u2 after it has its reminder and its reminderToConfirmSentAt
C26_Witness ==
    /\ out.op = "SendReminderToConfirmAccountLoop"
    /\ out.failed /\ out.found = 2
    /\ out.err = "" /\ out.left = 0
    /\ reminders["u1"] = 0
    /\ reminders["u2"] = 1 /\ SentAt(users["u2"]) >= 1

\* C27: the rows of a SendReminderToConfirmAccountLoop are the users with
\* accountConfirmedAt < 1, reminderToConfirmSentAt < 1 and createdAt <
\* createdBefore; a user's reminderToConfirmSentAt is set, to now, only after
\* the callback for that user succeeded; and no reminder is sent to a user
\* whose reminderToConfirmSentAt has been set, in this sweep or a later one
C27_OneReminder ==
    /\ [][\A p \in Handlers :
            (pc[p] = "idle" /\ pc'[p] = "remind_next") =>
                \E createdBefore \in CreatedBefore :
                    local'[p] = Rows({id \in UserIDs :
                                        /\ users[id] # NoUser
                                        /\ ConfirmedAt(users[id]) < 1
                                        /\ SentAt(users[id]) < 1
                                        /\ CreatedAt(users[id]) < createdBefore})]_vars
    /\ [][\A id \in UserIDs :
            users'[id] # users[id] =>
                \E p \in Handlers :
                    /\ pc[p] = "remind_upd" /\ Head(local[p]) = id
                    /\ users'[id] = [users[id] EXCEPT
                                        !.timestamps.reminderToConfirmSentAt = now]]_vars
    /\ [][\A p \in Handlers :
            (pc'[p] = "remind_upd" /\ pc[p] # "remind_upd") =>
                /\ pc[p] = "remind_cbk"
                /\ reminders'[Head(local[p])] = reminders[Head(local[p])] + 1]_vars
    /\ [][\A id \in UserIDs :
            reminders'[id] # reminders[id] =>
                /\ reminders'[id] = reminders[id] + 1
                /\ users[id] # NoUser /\ SentAt(users[id]) < 1]_vars

\* a sweep found u2 alone: u1, unverified and created before, has had its one
\* reminder and its reminderToConfirmSentAt set
C27_Witness ==
    /\ \E p \in Handlers : /\ pc[p] \in ReminderLabels
                           /\ call[p].found = 1
                           /\ local[p] = <<"u2">>
    /\ SentAt(users["u1"]) >= 1
    /\ reminders["u1"] = 1

\* C28: once the context of a PerfomActionForUsers or a
\* SendReminderToConfirmAccountLoop is cancelled, no further row is handed to
\* the callback, and the sweep returns at its next row
C28_CancelStops ==
    /\ [][\A p \in Handlers :
            (pc'[p] \in {"remind_cbk", "action_cbk"} /\ pc[p] # pc'[p]) =>
                ~call[p].cancelled]_vars
    /\ [][\A p \in Handlers :
            (pc[p] \in {"remind_next", "action_next"} /\ call[p].cancelled
                /\ pc'[p] # pc[p]) =>
                /\ pc'[p] = "idle"
                /\ UNCHANGED <<users, reminders>>
                /\ Len(local[p]) > 0 => out'.err = "context canceled"]_vars

\* a cancelled sweep returned with rows left
C28_Witness ==
    /\ out.op \in {"SendReminderToConfirmAccountLoop", "PerfomActionForUsers"}
    /\ out.err = "context canceled"
    /\ out.left > 0

----------------------------------------------------------------------------
(* The temp-token endpoints with their clean-up of expired tokens:          *)
(* GenerateTempToken and GetOrCreateTemptoken.  Times are in seconds.  The  *)
(* package variable lastTempTokenDeleteTime is read and written without     *)
(* synchronisation: the read and the write are separate steps.              *)

deleteTempTokensMinInterval == 10 * 60

\* the offset passed to CleanExpiredTemptokens
CleanOffset == 3600

SecondsPerDay == 24 * 3600

MaxCleanups == 2
MaxStoredTokens == 2

\* s.instanceIDs
instanceIDs == {"inst1"}

isInstanceIDAllowed(instanceID) == \E id \in instanceIDs : id = instanceID

\* the requests clients send
InstanceInputs == {"", "inst1", "inst2"}
UserInputs == {"", "u1"}
PurposeInputs == {"", "invitation"}
ExpirationInputs == {0, 300}

TempTokenCall(op) ==
    [op |-> op, InstanceId |-> "", UserId |-> "", Purpose |-> "", Expiration |-> 0,
     at |-> 0, resp |-> NoResp]

\* AddTempToken of a token document: the stored document gets a new token string
AddTempTokenOf(coll, tempToken) ==
    LET used == {t.token : t \in coll}
        n == CHOOSE k \in 1..(Cardinality(coll) + 1) :
                 k \notin used /\ \A m \in 1..(k - 1) : m \in used
    IN  [coll |-> coll \cup {[tempToken EXCEPT !.token = n]}, token |-> n]

GetTempTokenForUserOf(coll, instanceID, userID, purpose) ==
    {t \in coll : /\ t.instanceID = instanceID
                  /\ t.userId = userID
                  /\ (purpose = "" \/ t.purpose = purpose)}

\* the token document both endpoints build from the request
TempTokenOf(c, t) ==
    [token |-> 0, userId |-> c.UserId, instanceID |-> c.InstanceId, purpose |-> c.Purpose,
     expiration |-> IF c.Expiration = 0
                    THEN GetExpirationTime(t, GeneratedTokenLifetime * SecondsPerDay)
                    ELSE c.Expiration]

\* requests in flight that can still add a token
Adding == Cardinality({q \in Handlers : pc[q] # "idle"})

\* now := time.Now().Unix() and the test of lastTempTokenDeleteTime
Throttle(p, c, clean, next) ==
    IF lastTempTokenDeleteTime + deleteTempTokensMinInterval < now
    THEN Goto(p, clean, [c EXCEPT !.at = now], NoUser)
    ELSE Goto(p, next, [c EXCEPT !.at = now], NoUser)

\* go s.CleanExpiredTemptokens(3600) and the write of lastTempTokenDeleteTime
Clean(p, next) ==
    /\ Len(cleanups) < MaxCleanups
    /\ cleanups' = Append(cleanups, [at |-> now, ran |-> FALSE])
    /\ lastTempTokenDeleteTime' = call[p].at
    /\ Goto(p, next, call[p], NoUser)
    /\ UNCHANGED <<now, users, tempTokens, db, nextRT, exchanged, revoked, reminders>>

ThrottleIdle ==
    UNCHANGED <<now, users, db, nextRT, exchanged, revoked, reminders,
                lastTempTokenDeleteTime, cleanups>>

GenerateTempToken_Throttle(p) ==
    /\ pc[p] = "idle"
    /\ Cardinality(tempTokens) + Adding < MaxStoredTokens
    /\ \E purpose \in PurposeInputs :
         LET c == [TempTokenCall("GenerateTempToken") EXCEPT !.Purpose = purpose]
         IN  IF purpose = ""
             THEN Done(p, Return(c, ErrorResp("InvalidArgument", "missing argument")))
             ELSE Throttle(p, c, "generate_clean", "generate_add")
    /\ UNCHANGED tempTokens
    /\ ThrottleIdle

GenerateTempToken_Clean(p) ==
    /\ pc[p] = "generate_clean"
    /\ Clean(p, "generate_add")

GenerateTempToken_Add(p) ==
    /\ pc[p] = "generate_add"
    /\ \E instanceId \in InstanceInputs \ {""}, userId \in UserInputs \ {""},
          expiration \in ExpirationInputs :
         LET c == [call[p] EXCEPT !.InstanceId = instanceId, !.UserId = userId,
                                  !.Expiration = expiration]
             added == AddTempTokenOf(tempTokens, TempTokenOf(c, now))
         IN  /\ tempTokens' = added.coll
             /\ Done(p, Return(c, TokenResp(added.token)))
    /\ ThrottleIdle

GetOrCreateTemptoken_Throttle(p) ==
    /\ pc[p] = "idle"
    /\ Cardinality(tempTokens) + Adding < MaxStoredTokens
    /\ \E instanceId \in InstanceInputs, userId \in UserInputs, purpose \in PurposeInputs :
         LET c == [TempTokenCall("GetOrCreateTemptoken")
                     EXCEPT !.InstanceId = instanceId, !.UserId = userId,
                            !.Purpose = purpose]
         IN  IF purpose = "" \/ userId = "" \/ instanceId = ""
             THEN Done(p, Return(c, ErrorResp("InvalidArgument", "missing argument")))
             ELSE Throttle(p, c, "getorcreate_clean", "getorcreate_get")
    /\ UNCHANGED tempTokens
    /\ ThrottleIdle

GetOrCreateTemptoken_Clean(p) ==
    /\ pc[p] = "getorcreate_clean"
    /\ Clean(p, "getorcreate_get")

\* GetTempTokenForUser, and the return of the first token found
GetOrCreateTemptoken_Get(p) ==
    /\ pc[p] = "getorcreate_get"
    /\ LET tList == GetTempTokenForUserOf(tempTokens, call[p].InstanceId, call[p].UserId,
                                          call[p].Purpose)
       IN  IF tList = {}
           THEN Goto(p, "getorcreate_add", call[p], NoUser)
           ELSE \E t \in tList : \A o \in tList : t.token <= o.token
                   /\ Done(p, Return(call[p], TokenResp(t.token)))
    /\ UNCHANGED tempTokens
    /\ ThrottleIdle

GetOrCreateTemptoken_Add(p) ==
    /\ pc[p] = "getorcreate_add"
    /\ \E expiration \in ExpirationInputs :
         LET c == [call[p] EXCEPT !.Expiration = expiration]
             added == AddTempTokenOf(tempTokens, TempTokenOf(c, now))
         IN  /\ tempTokens' = added.coll
             /\ Done(p, Return(c, TokenResp(added.token)))
    /\ ThrottleIdle

\* a started clean-up task runs: it deletes the tokens that expired more than
\* the offset ago
CleanExpiredTemptokens ==
    \E i \in 1..Len(cleanups) :
        /\ ~cleanups[i].ran
        /\ cleanups' = [cleanups EXCEPT ![i].ran = TRUE]
        /\ tempTokens' = {t \in tempTokens : ~(t.expiration < now - CleanOffset)}
        /\ out' = NoCall
        /\ UNCHANGED <<now, users, db, nextRT, exchanged, revoked, reminders,
                       lastTempTokenDeleteTime, pc, call, local>>

\* the clock advances by half of the clean-up interval
ThrottleTick ==
    /\ now < CleanOffset + 1 + (MaxTime + 1) * (deleteTempTokensMinInterval \div 2)
    /\ now' = now + deleteTempTokensMinInterval \div 2
    /\ out' = NoCall
    /\ UNCHANGED <<users, tempTokens, db, nextRT, exchanged, revoked, reminders,
                   lastTempTokenDeleteTime, cleanups, pc, call, local>>

\* a server that has started, an hour after the epoch, no request served yet
ThrottleInit ==
    /\ db = NoUser
    /\ now = CleanOffset + 1
    /\ nextRT = 0
    /\ pc = [p \in Handlers |-> "idle"]
    /\ call = [p \in Handlers |-> NoCall]
    /\ local = [p \in Handlers |-> NoUser]
    /\ out = NoCall
    /\ exchanged = {}
    /\ revoked = {}
    /\ users = <<>>
    /\ tempTokens = {}
    /\ reminders = <<>>
    /\ lastTempTokenDeleteTime = 0
    /\ cleanups = <<>>

ThrottleNext ==
    \/ ThrottleTick
    \/ CleanExpiredTemptokens
    \/ \E p \in Handlers :
        \/ GenerateTempToken_Throttle(p)
        \/ GenerateTempToken_Clean(p)
        \/ GenerateTempToken_Add(p)
        \/ GetOrCreateTemptoken_Throttle(p)
        \/ GetOrCreateTemptoken_Clean(p)
        \/ GetOrCreateTemptoken_Get(p)
        \/ GetOrCreateTemptoken_Add(p)

SpecThrottle == ThrottleInit /\ [][ThrottleNext]_vars

\* C29: at most one clean-up of expired temp-tokens is started in any window
\* of deleteTempTokensMinInterval seconds
C29_OneCleanupPerWindow ==
    \A i, j \in 1..Len(cleanups) :
        i < j => cleanups[j].at - cleanups[i].at >= deleteTempTokensMinInterval

\* C30: every stored temp-token belongs to a registered instance: a request
\* with an instance id that is not registered creates no temp-token
C30_RegisteredInstanceOnly ==
    \A t \in tempTokens : isInstanceIDAllowed(t.instanceID)

----------------------------------------------------------------------------
(* Field-level pushes against whole-document saves: SaveFailedLoginAttempt  *)
(* and SavePasswordResetTrigger push a timestamp with one UpdateOne, while   *)
(* RenewJWT, RevokeAllRefreshTokens and LoginWithEmail save the copy of the  *)
(* user they loaded with UpdateUser                                          *)

MaxPushes == 2

\* UpdateOne by _id with $push: a document that is not there is not inserted
SaveFailedLoginAttemptIn(user, t) ==
    IF user = NoUser THEN user
    ELSE [user EXCEPT !.failedLoginAttempts = Append(@, t)]

SavePasswordResetTriggerIn(user, t) ==
    IF user = NoUser THEN user
    ELSE [user EXCEPT !.passwordResetTriggers = Append(@, t)]

Pushes(user) ==
    IF user = NoUser THEN 0
    ELSE Len(user.failedLoginAttempts) + Len(user.passwordResetTriggers)

SaveFailedLoginAttempt ==
    /\ Pushes(db) < MaxPushes
    /\ db' = SaveFailedLoginAttemptIn(db, now)
    /\ out' = NoCall
    /\ UNCHANGED <<now, nextRT, pc, call, local, exchanged, revoked, users, tempTokens,
                   reminders, lastTempTokenDeleteTime, cleanups>>

SavePasswordResetTrigger ==
    /\ Pushes(db) < MaxPushes
    /\ db' = SavePasswordResetTriggerIn(db, now)
    /\ out' = NoCall
    /\ UNCHANGED <<now, nextRT, pc, call, local, exchanged, revoked, users, tempTokens,
                   reminders, lastTempTokenDeleteTime, cleanups>>

\* a user with two refresh tokens, no failed login and no password reset so far
AttemptsInit ==
    /\ db = [id |-> "u1", accountConfirmedAt |-> 1, refreshTokens |-> <<1, 2>>,
             profiles |-> <<[id |-> "p1", mainProfile |-> TRUE],
                            [id |-> "p2", mainProfile |-> FALSE]>>,
             markedForDeletion |-> 0,
             failedLoginAttempts |-> <<>>, passwordResetTriggers |-> <<>>]
    /\ now = 1
    /\ nextRT = MaxRefreshTokens + 1
    /\ pc = [p \in Handlers |-> "idle"]
    /\ call = [p \in Handlers |-> NoCall]
    /\ local = [p \in Handlers |-> NoUser]
    /\ out = NoCall
    /\ exchanged = {}
    /\ revoked = {}
    /\ users = <<>>
    /\ tempTokens = {}
    /\ reminders = <<>>
    /\ lastTempTokenDeleteTime = 0
    /\ cleanups = <<>>

AttemptsNext ==
    \/ Tick
    \/ SaveFailedLoginAttempt
    \/ SavePasswordResetTrigger
    \/ \E p \in Handlers : RenewJWT_Load(p)
    \/ \E p \in Handlers : RenewJWT_Save(p)
    \/ \E p \in Handlers : LoginWithEmail_Load(p)
    \/ \E p \in Handlers : LoginWithEmail_Save(p)

SpecAttempts == AttemptsInit /\ [][AttemptsNext]_vars

IsPrefix(s, t) == Len(s) <= Len(t) /\ \A i \in 1..Len(s) : t[i] = s[i]

\* C31: no edit of failedLoginAttempts, passwordResetTriggers or refreshTokens
\* is lost to a concurrent request: no step takes a pushed timestamp out of
\* the stored user, and the save of a login or of a token renewal takes no
\* refresh token out of it other than the one the renewal exchanges
C31_NoLostEdit ==
    [][(db # NoUser /\ db' # NoUser)
        => /\ IsPrefix(db.failedLoginAttempts, db'.failedLoginAttempts)
           /\ IsPrefix(db.passwordResetTriggers, db'.passwordResetTriggers)
           /\ (out'.op \in {"RenewJWT", "LoginWithEmail"} /\ out'.wrote
                 /\ Len(db.refreshTokens) < MaxRefreshTokens)
              => \A rt \in Range(db.refreshTokens) :
                    rt = out'.rt \/ rt \in Range(db'.refreshTokens)]_vars

----------------------------------------------------------------------------
(* Password reset: InitiatePasswordReset, GetInfosForPasswordReset and      *)
(* ResetPassword, as the tests of password_reset_endpoints_test.go call them *)

ResetCall(op) ==
    [op |-> op, accountId |-> "", token |-> <<>>, password |-> "", userId |-> "",
     found |-> FALSE, sent |-> <<>>, log |-> "", resp |-> NoResp]

\* the account ids clients name: none, the stored account, one that is not stored
AccountInputs == {"", "a@x", "b@x"}

\* the user document with account.passwordResetTriggers
WithTriggers(user, triggers) ==
    [f \in DOMAIN user \cup {"passwordResetTriggers"} |->
        IF f = "passwordResetTriggers" THEN triggers ELSE user[f]]

\* fewer than 5 triggers within the last hour
CanTriggerPasswordReset(user, t) ==
    Cardinality({i \in 1..Len(user.passwordResetTriggers) :
                    user.passwordResetTriggers[i] > t - 3600}) < 5

PasswordResetLifetime == 15 * 60

SavePasswordResetTriggerOf(coll, userID, t) ==
    IF GetUserByIDFrom(coll, userID).err THEN coll
    ELSE [coll EXCEPT ![userID] = SavePasswordResetTriggerIn(@, t)]

\* a variant that tells the caller that the account is not stored
InitiatePasswordReset_unknownError == ErrorResp("InvalidArgument", "invalid account id")

\* InitiatePasswordReset for an account id that is not stored
InitiatePasswordReset_unknown == StatusResp("email sent")

\* InitiatePasswordReset up to GetUserByAccountID and CanTriggerPasswordReset
InitiatePasswordReset_Load(p) ==
    /\ pc[p] = "idle"
    /\ \E accountId \in AccountInputs :
         LET c == [ResetCall("InitiatePasswordReset") EXCEPT !.accountId = accountId]
             hits == UsersWithAccountID(users, accountId)
             user == users[CHOOSE id \in hits : TRUE]
         IN  IF accountId = ""
             THEN Done(p, Return(c, ErrorResp("InvalidArgument", "missing argument")))
             ELSE IF hits = {}
             THEN Done(p, Return(c, InitiatePasswordReset_unknown))
             ELSE IF ~CanTriggerPasswordReset(user, now)
             THEN Done(p, Return([c EXCEPT !.found = TRUE], StatusResp("email sent")))
             ELSE Goto(p, "reset_send", [c EXCEPT !.found = TRUE, !.userId = user.id], user)
    /\ UNCHANGED <<now, users, tempTokens>>
    /\ SessionIdle

\* the password-reset token, the trigger timestamp, the email and the log event
InitiatePasswordReset_Send(p) ==
    /\ pc[p] = "reset_send"
    /\ tempTokens' = AddTempToken(tempTokens, local[p].id, "password-reset", <<>>,
                                  GetExpirationTime(now, PasswordResetLifetime))
    /\ users' = SavePasswordResetTriggerOf(users, local[p].id, now)
    /\ Done(p, ReturnLogged(
                 [call[p] EXCEPT !.sent =
                     <<[to |-> local[p].accountId, type |-> "password-reset",
                        token |-> NewTokenString(tempTokens, local[p].id, "password-reset")]>>],
                 StatusResp("email sent"), "PASSWORD_RESET_INITIATED"))
    /\ UNCHANGED now
    /\ SessionIdle

\* the token strings clients present: none, the two stored at the start, those
\* InitiatePasswordReset adds, a token of another purpose
ResetTokenStrings ==
    {<<>>, <<"u1", "contact-verification", 1>>}
        \cup {<<"u1", "password-reset", n>> : n \in 1..4}

\* a variant that hands on the error of ValidateTempToken
WrongTokenOf(tokenInfos) == ErrorResp("InvalidArgument", tokenInfos.err)

\* the error of both endpoints for a token ValidateTempToken refuses
WrongToken(tokenInfos) == ErrorResp("InvalidArgument", "wrong token")

GetInfosForPasswordReset(p) ==
    /\ pc[p] = "idle"
    /\ \E token \in ResetTokenStrings :
         LET c == [ResetCall("GetInfosForPasswordReset") EXCEPT !.token = token]
             tokenInfos == ValidateTempToken(tempTokens, token, {"password-reset"}, now)
             got == GetUserByIDFrom(users, tokenInfos.userId)
         IN  IF token = <<>>
             THEN Done(p, Return(c, ErrorResp("InvalidArgument", "missing argument")))
             ELSE IF tokenInfos.err # ""
             THEN Done(p, Return(c, WrongToken(tokenInfos)))
             ELSE IF got.err
             THEN Done(p, Return(c, ErrorResp("Internal", "user not found")))
             ELSE Done(p, Return([c EXCEPT !.userId = got.user.id],
                                 [kind |-> "infos", accountId |-> got.user.accountId]))
    /\ UNCHANGED <<now, users, tempTokens>>
    /\ SessionIdle

\* ResetPassword up to the new hash
ResetPassword_Validate(p) ==
    /\ pc[p] = "idle"
    /\ \E token \in ResetTokenStrings, newPassword \in NewPasswords \cup {""} :
         LET c == [ResetCall("ResetPassword") EXCEPT !.token = token, !.password = newPassword]
             tokenInfos == ValidateTempToken(tempTokens, token, {"password-reset"}, now)
         IN  IF token = <<>> \/ newPassword = ""
             THEN Done(p, Return(c, ErrorResp("InvalidArgument", "missing argument")))
             ELSE IF tokenInfos.err # ""
             THEN Done(p, Return(c, WrongToken(tokenInfos)))
             ELSE IF ~CheckPasswordFormat(newPassword)
             THEN Done(p, Return(c, ErrorResp("InvalidArgument", "password too weak")))
             ELSE Goto(p, "reset_update", [c EXCEPT !.userId = tokenInfos.userId], NoUser)
    /\ UNCHANGED <<now, users, tempTokens>>
    /\ SessionIdle

ResetPassword_Update(p) ==
    /\ pc[p] = "reset_update"
    /\ users' = UpdateUserPassword(users, call[p].userId, HashPassword(call[p].password))
    /\ Goto(p, "reset_delete", call[p], NoUser)
    /\ UNCHANGED <<now, tempTokens>>
    /\ SessionIdle

\* the token is deleted, the event logged and the confirmation sent
ResetPassword_Delete(p) ==
    /\ pc[p] = "reset_delete"
    /\ tempTokens' = {t \in tempTokens : t.token # call[p].token}
    /\ Done(p, ReturnLogged(
                 [call[p] EXCEPT !.sent = <<[to |-> call[p].userId, type |-> "password-changed",
                                            token |-> <<>>]>>],
                 StatusResp("password changed"), "PASSWORD_RESET"))
    /\ UNCHANGED <<now, users>>
    /\ SessionIdle

\* one account with three reset triggers in the last hour; a reset token that is
\* expired, one that expires when the clock passes TokenExpiryInterval, and a
\* token of another purpose
PasswordResetInit ==
    /\ AcctInit
    /\ users = [id \in UserIDs |->
                  IF id = "u1"
                  THEN WithTriggers(AcctUser("u1", "a@x", 1, {Contact("a@x", 1)}), <<0, 0, 0>>)
                  ELSE NoUser]
    /\ tempTokens = {StoredToken("u1", "password-reset", 0),
                     [StoredToken("u1", "password-reset", TokenExpiryInterval)
                         EXCEPT !.token = <<"u1", "password-reset", 2>>],
                     StoredToken("u1", "contact-verification", MaxTime + 1)}

PasswordResetNext ==
    \/ Tick
    \/ \E p \in Handlers :
        \/ InitiatePasswordReset_Load(p)
        \/ InitiatePasswordReset_Send(p)
        \/ GetInfosForPasswordReset(p)
        \/ ResetPassword_Validate(p)
        \/ ResetPassword_Update(p)
        \/ ResetPassword_Delete(p)

SpecPasswordReset == PasswordResetInit /\ [][PasswordResetNext]_vars

TokenUnknown(coll, token) == \A t \in coll : t.token # token

TokenExpired(coll, token, at) == \E t \in coll : t.token = token /\ t.expiration < at

\* C32: GetInfosForPasswordReset and ResetPassword called with a token string
\* that is not stored, or whose temp-token has its expiration in the past,
\* fail with the message "wrong token" in the step that validates the token;
\* the response holds no account id and the step leaves the stored users, the
\* password hash with them, unchanged
C32_WrongToken ==
    [][(/\ pc' = pc
        /\ out'.op \in {"GetInfosForPasswordReset", "ResetPassword"}
        /\ out'.token # <<>>
        /\ out'.password # "" \/ out'.op = "GetInfosForPasswordReset"
        /\ TokenUnknown(tempTokens, out'.token) \/ TokenExpired(tempTokens, out'.token, now))
       => /\ out'.resp = ErrorResp("InvalidArgument", "wrong token")
          /\ users' = users]_vars

\* an expired token is refused after the password was reset with another one
C32_Witness ==
    /\ out.op = "ResetPassword"
    /\ out.token = <<"u1", "password-reset", 2>>
    /\ TokenExpired(tempTokens, out.token, now)
    /\ out.resp = ErrorResp("InvalidArgument", "wrong token")
    /\ users["u1"].password = HashPassword("pw2")

\* C33: InitiatePasswordReset for an account id that is not stored returns the
\* success of a stored account, and that request sends no email, adds no
\* temp-token and logs no event
C33_UnknownAccountHidden ==
    /\ []((out.op = "InitiatePasswordReset" /\ out.accountId # "")
            => /\ out.resp = StatusResp("email sent")
               /\ ~out.found => out.sent = <<>> /\ out.log = "")
    /\ [][(out'.op = "InitiatePasswordReset" /\ ~out'.found)
            => UNCHANGED <<tempTokens, users>>]_vars

\* the request for an unknown account returns after one for the stored account
\* has added its token
C33_Witness ==
    /\ out.op = "InitiatePasswordReset"
    /\ out.accountId = "b@x"
    /\ out.resp = StatusResp("email sent")
    /\ \E t \in tempTokens : t.token = <<"u1", "password-reset", 3>>

----------------------------------------------------------------------------
(* GetOrCreateTemptoken as the only endpoint that adds temp-tokens *)

\* an empty store, or one invitation token of u1 that expires with the first
\* advance of the clock
GetOrCreateInit ==
    /\ db = NoUser
    /\ now = CleanOffset + 1
    /\ nextRT = 0
    /\ pc = [p \in Handlers |-> "idle"]
    /\ call = [p \in Handlers |-> NoCall]
    /\ local = [p \in Handlers |-> NoUser]
    /\ out = NoCall
    /\ exchanged = {}
    /\ revoked = {}
    /\ users = <<>>
    /\ tempTokens \in {{}, {[token |-> 1, userId |-> "u1", instanceID |-> "inst1",
                             purpose |-> "invitation", expiration |-> CleanOffset + 2]}}
    /\ reminders = <<>>
    /\ lastTempTokenDeleteTime = 0
    /\ cleanups = <<>>

GetOrCreateNext ==
    \/ ThrottleTick
    \/ CleanExpiredTemptokens
    \/ \E p \in Handlers :
        \/ GetOrCreateTemptoken_Throttle(p)
        \/ GetOrCreateTemptoken_Clean(p)
        \/ GetOrCreateTemptoken_Get(p)
        \/ GetOrCreateTemptoken_Add(p)

SpecGetOrCreate == GetOrCreateInit /\ [][GetOrCreateNext]_vars

\* C34: with GetOrCreateTemptoken as the only endpoint that adds tokens, at
\* most one temp-token is stored per (instanceId, userId, purpose), whatever
\* the interleaving of the calls
C34_OnePerTriple ==
    \A a, b \in tempTokens :
        (a.instanceID = b.instanceID /\ a.userId = b.userId /\ a.purpose = b.purpose)
            => a = b

\* C35: the token string GetOrCreateTemptoken returns, for a request that does
\* not itself ask for an expiration in the past, is that of a stored
\* temp-token whose expiration is not in the past
C35_ReturnedNotExpired ==
    (/\ out.op = "GetOrCreateTemptoken"
     /\ out.resp.kind = "TempToken"
     /\ out.Expiration = 0 \/ out.Expiration >= now)
        => \E t \in tempTokens : t.token = out.resp.token /\ ~(t.expiration < now)

----------------------------------------------------------------------------
(* ChangePassword next to the requests that save the user they loaded:      *)
(* AddEmail and RemoveEmail stand for the callers of UpdateUser              *)

PasswordNext ==
    \E p \in Handlers :
        \/ ChangePassword_Load(p)
        \/ ChangePassword_Update(p)
        \/ ChangePassword_Purge(p)
        \/ AddEmail_Load(p)
        \/ AddEmail_Save(p)
        \/ RemoveEmail_Load(p)
        \/ RemoveEmail_Save(p)

SpecPassword == ContactsInit /\ [][PasswordNext]_vars

\* C36: the password hash ChangePassword stored stays: while no ChangePassword
\* is in flight, no request changes the stored hash of a user, so a request
\* that loaded the user before the change and saves it afterwards does not
\* bring the old hash back
C36_HashStays ==
    [][\A id \in UserIDs :
        (/\ users[id] # NoUser
         /\ users'[id] # NoUser
         /\ \A p \in Handlers : call[p].op # "ChangePassword")
        => users'[id].password = users[id].password]_vars

----------------------------------------------------------------------------
(* Requests in flight while DeleteAccount deletes the user *)

InFlightNext ==
    \E p \in Handlers :
        \/ DeleteAccount_Load(p)
        \/ DeleteAccount_Delete(p)
        \/ DeleteAccount_Purge(p)
        \/ AddEmail_Load(p)
        \/ AddEmail_Save(p)
        \/ ChangePassword_Load(p)
        \/ ChangePassword_Update(p)
        \/ ChangePassword_Purge(p)

SpecInFlight == AccountIDInit /\ [][InFlightNext]_vars

ChangeDeleteNext ==
    \E p \in Handlers :
        \/ DeleteAccount_Load(p)
        \/ DeleteAccount_Delete(p)
        \/ DeleteAccount_Purge(p)
        \/ ChangeAccountIDEmail_Load(p)
        \/ ChangeAccountIDEmail_Save(p)

SpecChangeDelete == AccountIDInit /\ [][ChangeDeleteNext]_vars

\* C37: a deleted user is not created again: no UpdateUser and no field-level
\* update of a request that was in flight when DeleteUser removed the user
\* inserts a document for its id
C37_NeverRecreated ==
    [][\A id \in UserIDs : users[id] = NoUser => users'[id] = NoUser]_vars

\* the save of a request that loaded the user before the deletion finds nothing
C37_Witness ==
    /\ out.op = "AddEmail"
    /\ out.resp = ErrorResp("Internal", "not found")
    /\ out.tokenId = "u1"
    /\ users["u1"] = NoUser

\* C38: a ChangeAccountIDEmail that returns an error has sent no email, its
\* returning step has changed neither the stored users nor the temp-tokens,
\* and no restore-account-id token for its change is stored
C38_ErrorLeavesNoTrace ==
    /\ []((out.op = "ChangeAccountIDEmail" /\ out.resp.kind = "error")
            => /\ out.sent = <<>>
               /\ \A t \in tempTokens :
                    ~(/\ t.userId = out.tokenId
                      /\ t.purpose = "restore-account-id"
                      /\ t.info[2] = out.email))
    /\ [][(out'.op = "ChangeAccountIDEmail" /\ out'.resp.kind = "error")
            => UNCHANGED <<users, tempTokens>>]_vars

\* C39: the verification email of AddEmail goes to the address the request adds
C39_SentToNewAddress ==
    (out.op = "AddEmail" /\ out.sent # <<>>) => out.sent[1].to = out.email

----------------------------------------------------------------------------
(* The sweep that marks inactive users, next to logins: the timer process   *)
(* calls FindInactiveUsers and then UpdateMarkedForDeletionTime with         *)
(* reset=false for each user found                                           *)

MarkInactiveForDeletion_Find(p) ==
    /\ pc[p] = "idle"
    /\ \E dT1 \in Thresholds :
         LET found == Find(users, LAMBDA u : FindInactiveUsers_matches(u, dT1, now))
         IN  Goto(p, "mark_next",
                  [StoreCall("MarkInactiveForDeletion", "")
                     EXCEPT !.dT = dT1, !.at = now, !.found = found],
                  Rows(found))
    /\ UNCHANGED <<now, users, tempTokens>>
    /\ SessionIdle

\* the next user found is marked, or the sweep returns
MarkInactiveForDeletion_Mark(p) ==
    /\ pc[p] = "mark_next"
    /\ IF Len(local[p]) = 0
       THEN /\ Done(p, [call[p] EXCEPT !.ok = TRUE])
            /\ UNCHANGED users
       ELSE \E dT2 \in Deltas :
              /\ users' = UpdateMarkedForDeletionTimeIn(users, Head(local[p]), dT2,
                                                        FALSE, now).coll
              /\ Goto(p, "mark_next", [call[p] EXCEPT !.count = @ + 1], Tail(local[p]))
    /\ UNCHANGED <<now, tempTokens>>
    /\ SessionIdle

MarkInactiveNext ==
    \/ Tick
    \/ MarkInactiveForDeletion_Find(TimerService)
    \/ MarkInactiveForDeletion_Mark(TimerService)
    \/ \E p \in Streamers : UpdateLoginTime_Set(p)
    \/ \E p \in Streamers : UpdateLoginTime_Reset(p)

SpecMarkInactive == RetentionInit /\ [][MarkInactiveNext]_vars

\* C40: when the sweep has returned and no UpdateLoginTime is in flight, a
\* user the sweep found whose lastLogin is not older than the sweep's
\* inactivity threshold is not marked for deletion
C40_LoginUnmarks ==
    (out.op = "MarkInactiveForDeletion" /\ \A p \in Handlers : call[p].op # "UpdateLoginTime")
        => \A id \in out.found :
              (users[id] # NoUser /\ ~(users[id].timestamps.lastLogin < now - out.dT))
                 => MarkedForDeletion(users[id]) = 0

====
